---------------------------- MODULE Spec2Model ----------------------------
(***************************************************************************)
(* A model of gqlmap: the schema inferrer (src/schema/inference.rs) and    *)
(* the scan harness (src/main.rs, src/tests/*.rs).                         *)
(*                                                                         *)
(* Error messages are sequences of tokens: a token is a word (a maximal    *)
(* run of \w characters) or one punctuation character; blanks are not      *)
(* represented.  The regular expressions of the inferrer are patterns over *)
(* these tokens and are matched as the regex crate matches them (leftmost  *)
(* match, greedy repetition).                                              *)
(***************************************************************************)
EXTENDS Integers, Sequences, FiniteSets, TLC

(***************************************************************************)
(* Bounds of the model.                                                    *)
(***************************************************************************)
\* longest wordlist handed to SchemaInferrer::new
MaxWordlist == 2
\* how many requests one run of the inferrer may send
MaxRequests == 60
\* how many of the built-in argument names (taken from the end of the
\* list, which is where pop() starts) probe_field_args is seeded with
MaxCommonArgs == 2
\* how many target URLs one scan is given (more than one with --discover)
MaxTargets == 2
\* how many paths the candidate list of discover has
MaxPaths == 3
MaxContent == 5

(***************************************************************************)
(* Tokens.                                                                 *)
(***************************************************************************)
DQ == "\""
SQ == "'"
Quotes == {DQ, SQ}
Punctuation == {DQ, SQ, ",", "?", ".", "!", "{", "}", ":"}
None == "<none>"

\* \w+ : one word token
IsWord(t) == t \notin Punctuation /\ t # None

\* The characters of the words the model uses (a string is opaque to TLC;
\* the code looks at its characters).  A punctuation token is its own only
\* character.
Chars(n) ==
    CASE n = "xyz" -> <<"x", "y", "z">>
      [] n = "me" -> <<"m", "e">>
      [] n = "user" -> <<"u", "s", "e", "r">>
      [] n = "users" -> <<"u", "s", "e", "r", "s">>
      [] n = "friends" -> <<"f", "r", "i", "e", "n", "d", "s">>
      [] n = "createdAt" -> <<"c", "r", "e", "a", "t", "e", "d", "A", "t">>
      [] n = "9bad" -> <<"9", "b", "a", "d">>
      [] n = "User" -> <<"U", "s", "e", "r">>
      [] n = "Query" -> <<"Q", "u", "e", "r", "y">>
      [] n = "Mutation" -> <<"M", "u", "t", "a", "t", "i", "o", "n">>
      [] n = "Subscription" -> <<"S", "u", "b", "s", "c", "r", "i", "p", "t", "i", "o", "n">>
      [] n = "DateTime" -> <<"D", "a", "t", "e", "T", "i", "m", "e">>
      [] n = "__Schema" -> <<"_", "_", "S", "c", "h", "e", "m", "a">>
      [] n = "String" -> <<"S", "t", "r", "i", "n", "g">>
      [] n = "Int" -> <<"I", "n", "t">>
      [] n = "Float" -> <<"F", "l", "o", "a", "t">>
      [] n = "Boolean" -> <<"B", "o", "o", "l", "e", "a", "n">>
      [] n = "ID" -> <<"I", "D">>
      [] n = "Cannot" -> <<"C", "a", "n", "n", "o", "t">>
      [] n = "query" -> <<"q", "u", "e", "r", "y">>
      [] n = "field" -> <<"f", "i", "e", "l", "d">>
      [] n = "on" -> <<"o", "n">>
      [] n = "type" -> <<"t", "y", "p", "e">>
      [] n = "Did" -> <<"D", "i", "d">>
      [] n = "you" -> <<"y", "o", "u">>
      [] n = "mean" -> <<"m", "e", "a", "n">>
      [] n = "Subselection" -> <<"S", "u", "b", "s", "e", "l", "e", "c", "t", "i", "o", "n">>
      [] n = "required" -> <<"r", "e", "q", "u", "i", "r", "e", "d">>
      [] n = "for" -> <<"f", "o", "r">>
      [] n = "of" -> <<"o", "f">>
      [] n = "Field" -> <<"F", "i", "e", "l", "d">>
      [] n = "must" -> <<"m", "u", "s", "t">>
      [] n = "have" -> <<"h", "a", "v", "e">>
      [] n = "a" -> <<"a">>
      [] n = "selection" -> <<"s", "e", "l", "e", "c", "t", "i", "o", "n">>
      [] n = "subfields" -> <<"s", "u", "b", "f", "i", "e", "l", "d", "s">>
      [] n = "not" -> <<"n", "o", "t">>
      [] n = "since" -> <<"s", "i", "n", "c", "e">>
      [] n = "has" -> <<"h", "a", "s">>
      [] n = "no" -> <<"n", "o">>
      [] n = "Unknown" -> <<"U", "n", "k", "n", "o", "w", "n">>
      [] n = "argument" -> <<"a", "r", "g", "u", "m", "e", "n", "t">>
      [] n = "Expected" -> <<"E", "x", "p", "e", "c", "t", "e", "d">>
      [] n = "value" -> <<"v", "a", "l", "u", "e">>
      [] n = "found" -> <<"f", "o", "u", "n", "d">>
      [] n = "null" -> <<"n", "u", "l", "l">>
      [] n = "Schema" -> <<"S", "c", "h", "e", "m", "a">>
      [] n = "is" -> <<"i", "s">>
      [] n = "configured" -> <<"c", "o", "n", "f", "i", "g", "u", "r", "e", "d">>
      [] n = "to" -> <<"t", "o">>
      [] n = "execute" -> <<"e", "x", "e", "c", "u", "t", "e">>
      [] n = "operation" -> <<"o", "p", "e", "r", "a", "t", "i", "o", "n">>
      [] n = "mutation" -> <<"m", "u", "t", "a", "t", "i", "o", "n">>
      [] n = "subscription" -> <<"s", "u", "b", "s", "c", "r", "i", "p", "t", "i", "o", "n">>
      [] n = "id" -> <<"i", "d">>
      [] n = "input" -> <<"i", "n", "p", "u", "t">>
      [] n = "where" -> <<"w", "h", "e", "r", "e">>
      [] n = "filter" -> <<"f", "i", "l", "t", "e", "r">>
      [] n = "limit" -> <<"l", "i", "m", "i", "t">>
      [] n = "offset" -> <<"o", "f", "f", "s", "e", "t">>
      [] n = "first" -> <<"f", "i", "r", "s", "t">>
      [] n = "last" -> <<"l", "a", "s", "t">>
      [] n = "after" -> <<"a", "f", "t", "e", "r">>
      [] n = "before" -> <<"b", "e", "f", "o", "r", "e">>
      [] n = "orderBy" -> <<"o", "r", "d", "e", "r", "B", "y">>
      [] n = "order" -> <<"o", "r", "d", "e", "r">>
      [] n = "sort" -> <<"s", "o", "r", "t">>
      [] n = "skip" -> <<"s", "k", "i", "p">>
      [] n = "take" -> <<"t", "a", "k", "e">>
      [] n = "page" -> <<"p", "a", "g", "e">>
      [] n = "pageSize" -> <<"p", "a", "g", "e", "S", "i", "z", "e">>
      [] n = "cursor" -> <<"c", "u", "r", "s", "o", "r">>
      [] n = "data" -> <<"d", "a", "t", "a">>
      [] n = "name" -> <<"n", "a", "m", "e">>
      [] n = "email" -> <<"e", "m", "a", "i", "l">>
      [] n = "search" -> <<"s", "e", "a", "r", "c", "h">>
      [] n = "expected" -> <<"e", "x", "p", "e", "c", "t", "e", "d">>
      [] n = "unknown" -> <<"u", "n", "k", "n", "o", "w", "n">>
      [] n = "depth" -> <<"d", "e", "p", "t", "h">>
      [] n = "Depth" -> <<"D", "e", "p", "t", "h">>
      [] n = "maxDepth" -> <<"m", "a", "x", "D", "e", "p", "t", "h">>
      [] n = "complexity" -> <<"c", "o", "m", "p", "l", "e", "x", "i", "t", "y">>
      [] n = "complex" -> <<"c", "o", "m", "p", "l", "e", "x">>
      [] n = "COMPLEXITY_LIMIT" -> <<"C", "O", "M", "P", "L", "E", "X", "I", "T", "Y", "_", "L", "I", "M", "I", "T">>
      [] n = "cost" -> <<"c", "o", "s", "t">>
      [] n = "score" -> <<"s", "c", "o", "r", "e">>
      [] n = "did" -> <<"d", "i", "d">>
      [] n = "DID" -> <<"D", "I", "D">>
      [] n = "YOU" -> <<"Y", "O", "U">>
      [] n = "MEAN" -> <<"M", "E", "A", "N">>
      [] n = "get" -> <<"g", "e", "t">>
      [] n = "GET" -> <<"G", "E", "T">>
      [] n = "target" -> <<"t", "a", "r", "g", "e", "t">>
      [] n = "only" -> <<"o", "n", "l", "y">>
      [] n = "ONLY" -> <<"O", "N", "L", "Y">>
      [] n = "allowed" -> <<"a", "l", "l", "o", "w", "e", "d">>
      [] n = "Allowed" -> <<"A", "l", "l", "o", "w", "e", "d">>
      [] n = "Not" -> <<"N", "o", "t">>
      [] n = "" -> << >>
      [] OTHER -> <<n>>

AsciiLower == {"a", "b", "c", "d", "e", "f", "g", "h", "i", "j", "k", "l", "m",
               "n", "o", "p", "q", "r", "s", "t", "u", "v", "w", "x", "y", "z"}
AsciiUpper == {"A", "B", "C", "D", "E", "F", "G", "H", "I", "J", "K", "L", "M",
               "N", "O", "P", "Q", "R", "S", "T", "U", "V", "W", "X", "Y", "Z"}
AsciiDigit == {"0", "1", "2", "3", "4", "5", "6", "7", "8", "9"}

\* is_valid_graphql_name
is_valid_graphql_name(name) ==
    LET cs == Chars(name) IN
    IF Len(cs) = 0 THEN FALSE
    ELSE IF cs[1] \notin (AsciiLower \cup AsciiUpper) /\ cs[1] # "_" THEN FALSE
    ELSE \A i \in 1..Len(cs) : cs[i] \in (AsciiLower \cup AsciiUpper \cup AsciiDigit) \/ cs[i] = "_"

\* str::starts_with("__")
StartsWithDunder(name) ==
    LET cs == Chars(name) IN Len(cs) >= 2 /\ cs[1] = "_" /\ cs[2] = "_"

SCALAR_TYPES == <<"String", "Int", "Float", "Boolean", "ID">>

Range(s) == {s[i] : i \in 1..Len(s)}

IsScalarName(t) == t \in Range(SCALAR_TYPES)

(***************************************************************************)
(* Regular expressions over tokens.  A pattern is a sequence of elements   *)
(* <<"lit", w>> (the word w), <<"q">> (an optional quote, ["\']?) and      *)
(* <<"cap">> (a captured \w+).                                             *)
(***************************************************************************)
NoMatch == [ok |-> FALSE, caps |-> << >>, end |-> 0]

RECURSIVE MatchFrom(_, _, _, _, _)
MatchFrom(msg, i, pat, j, caps) ==
    IF j > Len(pat) THEN [ok |-> TRUE, caps |-> caps, end |-> i]
    ELSE LET e == pat[j]
             here == i <= Len(msg)
         IN  CASE e[1] = "q" ->
                    IF here /\ msg[i] \in Quotes
                    THEN MatchFrom(msg, i + 1, pat, j + 1, caps)
                    ELSE MatchFrom(msg, i, pat, j + 1, caps)
               [] e[1] = "cap" ->
                    IF here /\ IsWord(msg[i])
                    THEN MatchFrom(msg, i + 1, pat, j + 1, Append(caps, msg[i]))
                    ELSE NoMatch
               [] OTHER ->
                    IF here /\ msg[i] = e[2]
                    THEN MatchFrom(msg, i + 1, pat, j + 1, caps)
                    ELSE NoMatch

\* Regex::captures : the leftmost match at or after position i
RECURSIVE CapturesFrom(_, _, _)
CapturesFrom(msg, pat, i) ==
    IF i > Len(msg) THEN NoMatch
    ELSE LET m == MatchFrom(msg, i, pat, 1, << >>)
         IN  IF m.ok THEN m ELSE CapturesFrom(msg, pat, i + 1)

Captures(msg, pat) == CapturesFrom(msg, pat, 1)

\* Regex::captures_iter : the capture lists of the successive
\* non-overlapping matches
RECURSIVE CapturesIterFrom(_, _, _)
CapturesIterFrom(msg, pat, i) ==
    LET m == CapturesFrom(msg, pat, i)
    IN  IF m.ok THEN <<m.caps>> \o CapturesIterFrom(msg, pat, m.end) ELSE << >>

CapturesIter(msg, pat) == CapturesIterFrom(msg, pat, 1)

Lit(ws) == [i \in 1..Len(ws) |-> <<"lit", ws[i]>>]
OptQ == <<"q">>
Cap == <<"cap">>
QWord == <<OptQ, Cap, OptQ>>

\* Cannot query field ["\']?(\w+)["\']? on type ["\']?(\w+)["\']?
field_error_regex ==
    Lit(<<"Cannot", "query", "field">>) \o QWord \o Lit(<<"on", "type">>) \o QWord

\* Subselection required for type ["\']?(\w+)["\']? of field ["\']?(\w+)["\']?
subselection_regex ==
    Lit(<<"Subselection", "required", "for", "type">>) \o QWord
        \o Lit(<<"of", "field">>) \o QWord

\* Field ["\']?(\w+)["\']? of type ["\']?(\w+)["\']? must have a selection of subfields
must_have_selection_regex ==
    Lit(<<"Field">>) \o QWord \o Lit(<<"of", "type">>) \o QWord
        \o Lit(<<"must", "have", "a", "selection", "of", "subfields">>)

\* Field ["\']?(\w+)["\']? must not have a selection since type ["\']?(\w+)["\']? has no subfields
must_not_have_selection_regex ==
    Lit(<<"Field">>) \o QWord
        \o Lit(<<"must", "not", "have", "a", "selection", "since", "type">>) \o QWord
        \o Lit(<<"has", "no", "subfields">>)

\* ["\'](\w+)["\'] : here both quotes are required
RECURSIVE QuotedWordsFrom(_, _)
QuotedWordsFrom(s, i) ==
    IF i + 2 > Len(s) THEN << >>
    ELSE IF s[i] \in Quotes /\ IsWord(s[i + 1]) /\ s[i + 2] \in Quotes
         THEN <<s[i + 1]>> \o QuotedWordsFrom(s, i + 3)
         ELSE QuotedWordsFrom(s, i + 1)

quoted_word_regex(s) == QuotedWordsFrom(s, 1)

\* the first position at or after i where the words ws start, 0 if none
RECURSIVE FindWords(_, _, _)
FindWords(msg, ws, i) ==
    IF i + Len(ws) - 1 > Len(msg) THEN 0
    ELSE IF \A k \in 1..Len(ws) : msg[i + k - 1] = ws[k] THEN i
         ELSE FindWords(msg, ws, i + 1)

\* the last position of a double quote in msg, 0 if none
LastDQ(msg) ==
    LET qs == {k \in 1..Len(msg) : msg[k] = DQ}
    IN  IF qs = {} THEN 0 ELSE CHOOSE k \in qs : \A l \in qs : l <= k

\* Did you mean (.+)" : group 1 runs from the token after the leftmost
\* "Did you mean" up to, not including, the LAST double quote of the message
\* (.+ is greedy and needs at least one character, which is at least one
\* token).
suggestions_regex(msg) ==
    LET d == FindWords(msg, <<"Did", "you", "mean">>, 1)
        q == LastDQ(msg)
    IN  IF d = 0 \/ q < d + 4
        THEN [ok |-> FALSE, group |-> << >>]
        ELSE [ok |-> TRUE, group |-> SubSeq(msg, d + 3, q - 1)]

(***************************************************************************)
(* JSON values of response bodies.  A value is [k, tn, ek, etn]: its kind, *)
(* its __typename member (objects), and the kind and __typename of its     *)
(* first element (arrays; ek = None for an empty array).                   *)
(***************************************************************************)
JVal(k) == [k |-> k, tn |-> None, ek |-> None, etn |-> None]
JObject(tn) == [k |-> "object", tn |-> tn, ek |-> None, etn |-> None]
JArray(ek, etn) == [k |-> "array", tn |-> None, ek |-> ek, etn |-> etn]
JNull == JVal("null")

\* A response body: data is absent, null, or an object with at most the one
\* selected member; errors is absent or an array of objects with a message.
Body(hasData, dataNull, member, value, hasErrors, msgs) ==
    [hasData |-> hasData, dataNull |-> dataNull, member |-> member, value |-> value,
     hasErrors |-> hasErrors, errors |-> msgs]

NoBody == Body(FALSE, FALSE, None, JNull, FALSE, << >>)

\* GraphQLResponse::has_data
has_data(r) == r.hasData

\* GraphQLResponse::get_errors and as_array: the messages, << >> when absent
ErrorMessages(r) == IF r.hasErrors THEN r.errors ELSE << >>

(***************************************************************************)
(* Error messages a server sends.                                          *)
(***************************************************************************)
RECURSIVE QuotedList(_)
QuotedList(ws) ==
    IF Len(ws) = 0 THEN << >>
    ELSE IF Len(ws) = 1 THEN <<DQ, ws[1], DQ>>
    ELSE <<DQ, ws[1], DQ, ",">> \o QuotedList(Tail(ws))

\* Did you mean "a", "b"?
DidYouMean(ws) ==
    IF Len(ws) = 0 THEN << >>
    ELSE <<"Did", "you", "mean">> \o QuotedList(ws) \o <<"?">>

\* Cannot query field "f" on type "T". Did you mean ...?
MsgCannotQuery(f, t, suggested) ==
    <<"Cannot", "query", "field", DQ, f, DQ, "on", "type", DQ, t, DQ, ".">>
        \o DidYouMean(suggested)

\* Subselection required for type "T" of field "f"
MsgSubselection(t, f) ==
    <<"Subselection", "required", "for", "type", DQ, t, DQ, "of", "field", DQ, f, DQ>>

\* Field "f" of type "T" must have a selection of subfields. Did you mean "f { ... }"?
MsgMustHave(f, t) ==
    <<"Field", DQ, f, DQ, "of", "type", DQ, t, DQ,
      "must", "have", "a", "selection", "of", "subfields", ".",
      "Did", "you", "mean", DQ, f, "{", ".", ".", ".", "}", DQ, "?">>

\* Field "f" must not have a selection since type "T" has no subfields.
MsgMustNotHave(f, t) ==
    <<"Field", DQ, f, DQ, "must", "not", "have", "a", "selection", "since", "type",
      DQ, t, DQ, "has", "no", "subfields", ".">>

\* Unknown argument "a" on field "T.f". Did you mean ...?
MsgUnknownArgument(a, t, f, suggested) ==
    <<"Unknown", "argument", DQ, a, DQ, "on", "field", DQ, t, ".", f, DQ, ".">>
        \o DidYouMean(suggested)

\* Expected value of type "T!", found null.
MsgExpectedType(t) ==
    <<"Expected", "value", "of", "type", DQ, t, "!", DQ, ",", "found", "null", ".">>

\* Schema is not configured to execute <op> operation.
MsgNotConfigured(op) ==
    <<"Schema", "is", "not", "configured", "to", "execute", op, "operation", ".">>

(***************************************************************************)
(* The servers inference is run against: a schema and an error dialect.    *)
(***************************************************************************)
Fld(name, type, scalar, list, empty, args) ==
    [name |-> name, type |-> type, scalar |-> scalar, list |-> list,
     empty |-> empty, args |-> args]
Arg(name, type, required) == [name |-> name, type |-> type, required |-> required]

\* the name of the root type of an operation, None when the schema has none
RootTypeOf(schema, op) ==
    CASE schema = "users" -> IF op = "query" THEN "Query" ELSE None
      [] schema = "me" -> IF op = "query" THEN "Query" ELSE None
      [] schema = "scalars" ->
            IF op = "query" THEN "Query"
            ELSE IF op = "mutation" THEN "Mutation" ELSE None
      [] OTHER ->
            IF op = "query" THEN "Query"
            ELSE IF op = "mutation" THEN "String" ELSE None

FieldsOfType(schema, t) ==
    CASE schema = "users" /\ t = "Query" ->
            <<Fld("user", "User", FALSE, FALSE, FALSE, <<Arg("query", "String", TRUE)>>),
              Fld("users", "User", FALSE, TRUE, FALSE, <<Arg("search", "String", FALSE)>>)>>
      [] schema = "me" /\ t = "Query" ->
            <<Fld("me", "User", FALSE, FALSE, FALSE, << >>)>>
      [] schema = "me" /\ t = "User" ->
            <<Fld("friends", "User", FALSE, TRUE, FALSE, << >>)>>
      [] schema = "scalars" /\ t = "Query" ->
            <<Fld("createdAt", "DateTime", TRUE, FALSE, FALSE, << >>),
              Fld("me", "String", TRUE, FALSE, FALSE,
                  <<Arg("id", "ID", TRUE), Arg("search", "Int", TRUE)>>)>>
      [] schema = "scalars" /\ t = "Mutation" ->
            <<Fld("user", "Query", FALSE, FALSE, FALSE, << >>),
              Fld("me", "Float", TRUE, TRUE, FALSE, << >>)>>
      [] schema = "odd" /\ t = "Query" ->
            <<Fld("xyz", "User", FALSE, FALSE, FALSE, << >>),
              Fld("me", "ID", FALSE, FALSE, FALSE, << >>),
              Fld("user", "__Schema", FALSE, FALSE, FALSE, << >>),
              Fld("users", "User", FALSE, TRUE, TRUE, << >>)>>
      [] schema = "odd" /\ t = "String" ->
            <<Fld("xyz", "Boolean", TRUE, FALSE, FALSE, << >>)>>
      [] OTHER -> << >>

Schemas == {"users", "me", "scalars", "odd"}

Lookup(seq, name) ==
    LET hits == {i \in 1..Len(seq) : seq[i].name = name}
    IN  IF hits = {} THEN 0 ELSE CHOOSE i \in hits : \A j \in hits : i <= j

NamesOf(seq) == [i \in 1..Len(seq) |-> seq[i].name]

\* how a value of a scalar type is serialised
ScalarKind(t) ==
    CASE t = "Int" -> "int"
      [] t = "Float" -> "float"
      [] t = "Boolean" -> "bool"
      [] OTHER -> "string"

\* A server: schema, the dialect of the selection error ("subsel" or
\* "musthave"), whether it suggests names, and whether a body with errors
\* also carries "data": null.
Server(schema, dialect, suggest, nulldata) ==
    [schema |-> schema, dialect |-> dialect, suggest |-> suggest, nulldata |-> nulldata]

Servers ==
    {Server(s, d, g, n) : s \in Schemas, d \in {"subsel", "musthave"},
                          g \in BOOLEAN, n \in BOOLEAN}

\* the names a server suggests for an unknown one: the names it knows; the
\* "odd" server repeats the unknown name before them
Suggested(server, name, known) ==
    IF ~server.suggest THEN << >>
    ELSE IF server.schema = "odd" THEN <<name>> \o NamesOf(known)
    ELSE NamesOf(known)

\* the field name a selection error speaks of: the "odd" server reports its
\* field xyz under the name user
ReportedName(server, name) ==
    IF server.schema = "odd" /\ name = "xyz" THEN "user" ELSE name

ErrorBody(server, msgs) == Body(server.nulldata, server.nulldata, None, JNull, TRUE, msgs)

\* The answer to  <op> { <name> }            (sel = FALSE, arg = None)
\*                <op> { <name> { __typename } }     (sel = TRUE)
\*                <op> { <name>(<arg>: null) }       (arg # None)
Respond(server, op, name, sel, arg) ==
    LET root == RootTypeOf(server.schema, op)
        fs == FieldsOfType(server.schema, root)
        i == Lookup(fs, name)
    IN  IF root = None THEN ErrorBody(server, <<MsgNotConfigured(op)>>)
        ELSE IF i = 0
        THEN ErrorBody(server, <<MsgCannotQuery(name, root, Suggested(server, name, fs))>>)
        ELSE
        LET f == fs[i]
            selErr ==
                IF f.scalar /\ sel THEN <<MsgMustNotHave(name, f.type)>>
                ELSE IF ~f.scalar /\ ~sel
                     THEN IF server.dialect = "subsel"
                          THEN <<MsgSubselection(f.type, ReportedName(server, name))>>
                          ELSE <<MsgMustHave(ReportedName(server, name), f.type)>>
                     ELSE << >>
            a == IF arg = None THEN 0 ELSE Lookup(f.args, arg)
            argErr ==
                IF arg = None THEN << >>
                ELSE IF a = 0
                     THEN <<MsgUnknownArgument(arg, root, name,
                                               Suggested(server, arg, f.args))>>
                     ELSE IF f.args[a].required
                          THEN <<MsgExpectedType(f.args[a].type)>>
                          ELSE << >>
            errs == selErr \o argErr
            one == IF f.scalar THEN JVal(ScalarKind(f.type)) ELSE JObject(f.type)
            value ==
                IF ~f.list THEN one
                ELSE IF f.empty THEN JArray(None, None)
                ELSE JArray(one.k, one.tn)
        IN  IF Len(errs) > 0 THEN ErrorBody(server, errs)
            ELSE Body(TRUE, FALSE, name, value, FALSE, << >>)

(***************************************************************************)
(* String tests of the argument probe, on the characters of the tokens.    *)
(***************************************************************************)
LowerSeq == <<"a", "b", "c", "d", "e", "f", "g", "h", "i", "j", "k", "l", "m",
              "n", "o", "p", "q", "r", "s", "t", "u", "v", "w", "x", "y", "z">>
UpperSeq == <<"A", "B", "C", "D", "E", "F", "G", "H", "I", "J", "K", "L", "M",
              "N", "O", "P", "Q", "R", "S", "T", "U", "V", "W", "X", "Y", "Z">>

LowerChar(c) ==
    IF \E i \in 1..Len(UpperSeq) : UpperSeq[i] = c
    THEN LowerSeq[CHOOSE i \in 1..Len(UpperSeq) : UpperSeq[i] = c]
    ELSE c

\* str::to_lowercase, on the characters of one token
to_lowercase(cs) == [i \in 1..Len(cs) |-> LowerChar(cs[i])]

IsInfix(a, b) ==
    \E k \in 0..(Len(b) - Len(a)) : \A j \in 1..Len(a) : b[k + j] = a[j]
IsPrefix(a, b) == Len(a) <= Len(b) /\ \A j \in 1..Len(a) : b[j] = a[j]
IsSuffix(a, b) ==
    Len(a) <= Len(b) /\ \A j \in 1..Len(a) : b[Len(b) - Len(a) + j] = a[j]

\* msg.contains(w) for a needle without blanks: some token holds it
Contains(msg, w) == \E i \in 1..Len(msg) : IsInfix(Chars(w), Chars(msg[i]))

\* msg.to_lowercase().contains("w1 w2"): a word ending in w1 is followed by
\* a word starting with w2
LowerContainsPair(msg, w1, w2) ==
    \E i \in 1..(Len(msg) - 1) :
        /\ IsWord(msg[i]) /\ IsWord(msg[i + 1])
        /\ IsSuffix(Chars(w1), to_lowercase(Chars(msg[i])))
        /\ IsPrefix(Chars(w2), to_lowercase(Chars(msg[i + 1])))

\* expected type ["\']?(\w+)["\']?   and   type ["\']?(\w+)["\']?
extract_type_from_error(msg) ==
    LET m1 == Captures(msg, Lit(<<"expected", "type">>) \o QWord)
        m2 == Captures(msg, Lit(<<"type">>) \o QWord)
    IN  IF m1.ok THEN m1.caps[1] ELSE IF m2.ok THEN m2.caps[1] ELSE None

\* infer_scalar_type
infer_scalar_type(v) ==
    LET of(k) == CASE k = "string" -> "String"
                   [] k = "float" -> "Float"
                   [] k = "int" -> "Int"
                   [] k = "bool" -> "Boolean"
                   [] OTHER -> "String"
    IN  IF v.k = "array" THEN of(v.ek) ELSE of(v.k)

(***************************************************************************)
(* The inferrer's data.                                                    *)
(***************************************************************************)
InferredArg(name, type_name) == [name |-> name, type_name |-> type_name]

InferredField(name, type_name, is_list, args) ==
    [name |-> name, type_name |-> type_name, is_list |-> is_list,
     is_non_null |-> FALSE, args |-> args]

InferredType(name, fs) == [name |-> name, kind |-> "OBJECT", fields |-> fs]

EmptyMap == [n \in {} |-> InferredType(n, << >>)]

\* HashMap::insert
MapInsert(map, key, value) == (key :> value) @@ map

Operations == <<"query", "mutation", "subscription">>

RootName(op) ==
    CASE op = "query" -> "Query"
      [] op = "mutation" -> "Mutation"
      [] OTHER -> "Subscription"

\* the built-in argument names of probe_field_args
AllCommonArgs ==
    <<"id", "input", "where", "filter", "limit", "offset", "first", "last",
      "after", "before", "orderBy", "order", "sort", "skip", "take", "page",
      "pageSize", "cursor", "data", "name", "email", "query", "search">>

\* the part of them the model seeds the argument queue with: the last
\* MaxCommonArgs, which pop() takes first
CommonArgs ==
    LET n == Len(AllCommonArgs)
        k == IF MaxCommonArgs < n THEN MaxCommonArgs ELSE n
    IN  SubSeq(AllCommonArgs, n - k + 1, n)

\* the wordlists handed to SchemaInferrer::new
SeedNames == {"xyz", "me", "9bad"}
Wordlists == UNION {[1..n -> SeedNames] : n \in 0..MaxWordlist}

(***************************************************************************)
(* Steps of the inferrer that touch no request.                            *)
(***************************************************************************)
\* a queue in place of the stack: the suggested names go below the waiting ones
PushSuggestedBelow(queue, ws, checked) ==
    LET Fresh(w) == w \notin checked
    IN  SelectSeq(ws, Fresh) \o queue

\* the loop without its test of the checked set
NeverChecked(checked, w) == FALSE

\* the loop without its insertion into the checked set
ForgetChecked(checked, w) == checked

\* register_type registering nothing
RegisterNothing(types, type_name) == types

\* the harvest of type names without its test for the built-in scalars
HarvestScalarsToo(types, type_str) ==
    IF type_str \notin DOMAIN types
    THEN (type_str :> [name |-> type_str, kind |-> "OBJECT", fields |-> << >>]) @@ types
    ELSE types

\* checked_words.contains(&word) / checked_args.contains(&arg_name)
AlreadyChecked(checked, w) == w \in checked

\* checked_words.insert(word.clone()) / checked_args.insert(arg_name.clone())
MarkChecked(checked, w) == checked \cup {w}

\* SchemaInferrer::register_type
register_type(types, type_name) ==
    IF /\ type_name \notin DOMAIN types
       /\ ~IsScalarName(type_name)
       /\ ~StartsWithDunder(type_name)
    THEN MapInsert(types, type_name, InferredType(type_name, << >>))
    ELSE types

\* the quoted words of the suggestion clause of one message
SuggestedWords(msg) ==
    LET c == suggestions_regex(msg)
    IN  IF c.ok THEN quoted_word_regex(c.group) ELSE << >>

\* push every suggested word that is not in the checked set
RECURSIVE PushSuggested(_, _, _)
PushSuggested(queue, ws, checked) ==
    IF Len(ws) = 0 THEN queue
    ELSE PushSuggested(IF ws[1] \notin checked THEN Append(queue, ws[1]) ELSE queue,
                       Tail(ws), checked)

\* the suggestion part of the loop over the errors of a root response
RECURSIVE ExtractSuggestions(_, _, _)
ExtractSuggestions(queue, msgs, checked) ==
    IF Len(msgs) = 0 THEN queue
    ELSE ExtractSuggestions(PushSuggested(queue, SuggestedWords(msgs[1]), checked),
                            Tail(msgs), checked)

\* a stub for the type of a "Cannot query field" message
HarvestOne(types, type_str) ==
    IF type_str \notin DOMAIN types /\ ~IsScalarName(type_str)
    THEN MapInsert(types, type_str, InferredType(type_str, << >>))
    ELSE types

RECURSIVE HarvestCaps(_, _)
HarvestCaps(types, caps) ==
    IF Len(caps) = 0 THEN types
    ELSE HarvestCaps(HarvestOne(types, caps[1][2]), Tail(caps))

\* the type-name part of the loop over the errors of a root response
RECURSIVE HarvestTypes(_, _)
HarvestTypes(types, msgs) ==
    IF Len(msgs) = 0 THEN types
    ELSE HarvestTypes(HarvestCaps(types, CapturesIter(msgs[1], field_error_regex)),
                      Tail(msgs))

\* whether a message of an argument probe is an unknown-argument error
IsUnknownArgument(msg) ==
    \/ LowerContainsPair(msg, "unknown", "argument")
    \/ LowerContainsPair(msg, "no", "argument")

\* whether a message of an argument probe confirms the argument
ConfirmsArgument(msg, arg) ==
    /\ ~IsUnknownArgument(msg)
    /\ (Contains(msg, arg) \/ Contains(msg, "expected") \/ Contains(msg, "type"))

\* the loop over the errors of the response to an argument probe: the queue
\* with the suggestions pushed, and the argument if a message confirmed it
\* (the loop breaks there)
RECURSIVE ArgScan(_, _, _, _)
ArgScan(msgs, queue, checked, arg) ==
    IF Len(msgs) = 0 THEN [queue |-> queue, found |-> << >>]
    ELSE LET q == PushSuggested(queue, SuggestedWords(msgs[1]), checked)
         IN  IF ConfirmsArgument(msgs[1], arg)
             THEN [queue |-> q,
                   found |-> <<InferredArg(arg, extract_type_from_error(msgs[1]))>>]
             ELSE ArgScan(Tail(msgs), q, checked, arg)

\* the type the first request of probe_field determines: [type_name, is_list,
\* registered], registered being the type handed to register_type (or None)
RECURSIVE MustNotType(_, _, _)
MustNotType(msgs, field_name, sofar) ==
    IF Len(msgs) = 0 THEN sofar
    ELSE LET m == Captures(msgs[1], must_not_have_selection_regex)
         IN  MustNotType(Tail(msgs), field_name,
                         IF m.ok /\ m.caps[1] = field_name THEN m.caps[2] ELSE sofar)

CharacterizeTypename(r, field_name) ==
    IF has_data(r)
    THEN IF ~r.dataNull /\ r.member = field_name
         THEN IF r.value.k = "array"
              THEN IF r.value.ek = "object" /\ r.value.etn # None
                   THEN [type_name |-> r.value.etn, is_list |-> TRUE,
                         registered |-> r.value.etn]
                   ELSE [type_name |-> None, is_list |-> TRUE, registered |-> None]
              ELSE IF r.value.k = "object" /\ r.value.tn # None
                   THEN [type_name |-> r.value.tn, is_list |-> FALSE,
                         registered |-> r.value.tn]
                   ELSE [type_name |-> None, is_list |-> FALSE, registered |-> None]
         ELSE [type_name |-> None, is_list |-> FALSE, registered |-> None]
    ELSE [type_name |-> MustNotType(ErrorMessages(r), field_name, None),
          is_list |-> FALSE, registered |-> None]

\* the type the second request of probe_field determines
CharacterizeScalar(r, f) ==
    IF has_data(r) /\ ~r.dataNull /\ r.member = f.name
    THEN [f EXCEPT !.type_name = infer_scalar_type(r.value),
                   !.is_list = (f.is_list \/ r.value.k = "array")]
    ELSE f

(***************************************************************************)
(* The state of one run of the infer subcommand.                           *)
(***************************************************************************)
VARIABLES
    wordlist,           \* SchemaInferrer.wordlist
    server,             \* the server behind SchemaInferrer.url
    pc,                 \* where the run is
    opIdx,              \* the operation infer is probing (index of Operations)
    words_to_check,     \* probe_root_type: the work queue (a stack)
    checked_words,      \* probe_root_type: the attempted names
    fields,             \* probe_root_type: the fields found
    word,               \* probe_root_type: the name being probed
    response,           \* probe_root_type: the response to the root probe
    errIdx,             \* probe_root_type: the error the first loop is at
    found_field,        \* probe_root_type: << >> or <<the field found>>
    field,              \* the field probe_field / the error loop is building
    common_args,        \* probe_field_args: the work queue (a stack)
    checked_args,       \* probe_field_args: the attempted names
    args,               \* probe_field_args: the arguments found
    arg_name,           \* probe_field_args: the name being probed
    caller,             \* who awaits probe_field_args: "scan" or "field"
    discovered_types,   \* SchemaInferrer.discovered_types
    discovered_fields,  \* SchemaInferrer.discovered_fields
    schema,             \* what infer returned
    output,             \* what to_introspection_format returned
    requests,           \* every request sent, in order
    errored             \* whether a request of this run hit a transport error

(***************************************************************************)
(* The state of one run of the scan subcommand.                            *)
(***************************************************************************)
VARIABLES
    targets,            \* run_scan: the servers behind the target URLs, in order
    excluded,           \* run_scan: the probe names of --exclude
    force,              \* run_scan: --force
    format,             \* run_scan: --output, "text" or "json"
    spc,                \* where the scan is
    tIdx,               \* the target the loop over the targets is at
    active_tests,       \* run_scan: the probes that are not excluded
    testIdx,            \* the probe the loop over active_tests is at
    results,            \* run_scan: the results of the target being scanned
    returned,           \* the results the probes returned for it, in order
    faulted,            \* the <<target, probe>> runs a transport error hit
    outputs,            \* what was output, target by target
    scan_errored,       \* whether a request of this scan hit a transport error
    runs,               \* every call of test.run, in order: target and probe
    wire,               \* every request of the scan, in order
    in_flight,          \* the requests sent and not yet answered or failed
    detections          \* what is_graphql_endpoint returned, target by target

scanVars ==
    <<targets, excluded, force, format, spc, tIdx, active_tests, testIdx, results,
      returned, faulted, outputs, scan_errored, runs, wire, in_flight, detections>>

\* no scan is running
ScanIdle ==
    /\ targets = << >>
    /\ excluded = {}
    /\ force = FALSE
    /\ format = "text"
    /\ spc = "idle"
    /\ tIdx = 0
    /\ active_tests = << >>
    /\ testIdx = 0
    /\ results = << >>
    /\ returned = << >>
    /\ faulted = {}
    /\ outputs = << >>
    /\ scan_errored = FALSE
    /\ runs = << >>
    /\ wire = << >>
    /\ in_flight = 0
    /\ detections = << >>

(***************************************************************************)
(* The state of one call of a probe, of is_graphql_endpoint or of          *)
(* EndpointDiscovery::discover.                                            *)
(***************************************************************************)
VARIABLES
    probe,              \* the function that was called
    ppc,                \* where the call is
    env,                \* what the server answers to the requests of the call
    pIdx,               \* discover: the path the loop is at
    found_urls,         \* discover: found, the URLs collected
    queries,            \* the requests the call sent, in order
    outcome,            \* what the call returned
    client              \* HttpClient: headers and debug_mode

probeVars == <<probe, ppc, env, pIdx, found_urls, queries, outcome, client>>

\* Option: Some(v) and None
Some(v) == [some |-> TRUE, v |-> v]
Nothing == [some |-> FALSE]

\* HttpClient::new
HttpClient(headers, debug_mode) == [headers |-> headers, debug_mode |-> debug_mode]

\* a header of a request
Header(key, value) == <<key, value>>

\* the headers --header gives to the client
CallerHeaders == {{}, {Header("Authorization", "Bearer")}}

Clients == {HttpClient(h, d) : h \in CallerHeaders, d \in BOOLEAN}

\* HttpClient::apply_headers: the headers added to the request
apply_headers(c, test_name) ==
    c.headers
        \cup (IF c.debug_mode
              THEN IF test_name.some THEN {Header("X-GQLMap-Test", test_name.v)} ELSE {}
              ELSE {})

\* the record of a request sent with the test name
Sent(c, query, test_name) ==
    [query |-> query, label |-> test_name,
     headers |-> apply_headers(c, Some(test_name))]

NoOutcome == [kind |-> "none"]

\* no such call is running
ProbeIdle ==
    /\ probe = "idle"
    /\ ppc = "idle"
    /\ env = << >>
    /\ pIdx = 0
    /\ found_urls = << >>
    /\ queries = << >>
    /\ outcome = NoOutcome
    /\ client = HttpClient({}, FALSE)

inferVars ==
    <<wordlist, server, pc, opIdx, words_to_check, checked_words, fields, word,
      response, errIdx, found_field, field, common_args, checked_args, args,
      arg_name, caller, discovered_types, discovered_fields, schema, output,
      requests, errored>>

Op == Operations[opIdx]

\* a request of the inferrer: who sent it and the query
Request(site, op, name, sel, arg) ==
    [site |-> site, op |-> op, name |-> name, sel |-> sel, arg |-> arg]

NoField == InferredField(None, None, FALSE, << >>)

NoSchema ==
    [query_type |-> << >>, mutation_type |-> << >>, subscription_type |-> << >>,
     types |-> EmptyMap]

NoOutput ==
    [queryType |-> None, mutationType |-> None, subscriptionType |-> None,
     types |-> << >>]

\* the inferrer constructed over a wordlist and a server, at position p
InferState(wl, srv, p) ==
    /\ wordlist = wl
    /\ server = srv
    /\ pc = p
    /\ opIdx = 1
    /\ words_to_check = wl
    /\ checked_words = {}
    /\ fields = << >>
    /\ word = None
    /\ response = NoBody
    /\ errIdx = 0
    /\ found_field = << >>
    /\ field = NoField
    /\ common_args = << >>
    /\ checked_args = {}
    /\ args = << >>
    /\ arg_name = None
    /\ caller = None
    /\ discovered_types = EmptyMap
    /\ discovered_fields = {}
    /\ schema = NoSchema
    /\ output = NoOutput
    /\ requests = << >>
    /\ errored = FALSE

InferInit ==
    /\ \E wl \in Wordlists : \E srv \in Servers : InferState(wl, srv, "loop")
    /\ ScanIdle
    /\ ProbeIdle

argVars == <<common_args, checked_args, args, arg_name, caller>>
rootVars == <<words_to_check, checked_words, fields, word, response, errIdx, found_field>>
constVars == <<wordlist, server>>
resultVars == <<schema, output>>

\* a request may be sent
CanSend == Len(requests) < MaxRequests

\* a request ends in a transport error (at most one request of a run does)
TransportError ==
    /\ ~errored
    /\ errored' = TRUE

(***************************************************************************)
(* probe_root_type: the work-queue loop.                                   *)
(***************************************************************************)
\* while let Some(word) = words_to_check.pop(): skip a checked or invalid
\* name, else send  <operation> { <word> }
PopWord ==
    /\ pc = "loop"
    /\ Len(words_to_check) > 0
    /\ LET w == words_to_check[Len(words_to_check)]
       IN  /\ words_to_check' = SubSeq(words_to_check, 1, Len(words_to_check) - 1)
           /\ IF AlreadyChecked(checked_words, w)
              THEN UNCHANGED <<checked_words, word, requests, pc>>
              ELSE /\ checked_words' = MarkChecked(checked_words, w)
                   /\ IF ~is_valid_graphql_name(w)
                      THEN UNCHANGED <<word, requests, pc>>
                      ELSE /\ CanSend
                           /\ word' = w
                           /\ requests' = Append(requests, Request("loop", Op, w, FALSE, None))
                           /\ pc' = "root_wait"
    /\ UNCHANGED <<scanVars, probeVars, constVars, opIdx, fields, response, errIdx, found_field, field,
                   argVars, discovered_types, discovered_fields, resultVars, errored>>

\* the root probe failed: Err(_) => continue
RootProbeFailed ==
    /\ pc = "root_wait"
    /\ TransportError
    /\ pc' = "loop"
    /\ UNCHANGED <<scanVars, probeVars, constVars, opIdx, rootVars, field, argVars, discovered_types,
                   discovered_fields, resultVars, requests>>

\* the root probe was answered: a direct hit calls probe_field, which sends
\* <operation> { <word> { __typename } }; otherwise the error loop starts
RootResponse ==
    /\ pc = "root_wait"
    /\ LET r == Respond(server, Op, word, FALSE, None)
       IN  /\ response' = r
           /\ found_field' = << >>
           /\ IF has_data(r) /\ ~r.dataNull /\ r.member = word
              THEN /\ CanSend
                   /\ field' = InferredField(word, None, FALSE, << >>)
                   /\ requests' = Append(requests, Request("field", Op, word, TRUE, None))
                   /\ pc' = "field_wait1"
                   /\ errIdx' = 0
              ELSE /\ errIdx' = 1
                   /\ pc' = "scan"
                   /\ UNCHANGED <<field, requests>>
    /\ UNCHANGED <<scanVars, probeVars, constVars, opIdx, words_to_check, checked_words, fields, word,
                   argVars, discovered_types, discovered_fields, resultVars, errored>>

\* entering probe_field_args on behalf of `who`
CallArgs(who) ==
    /\ common_args' = CommonArgs
    /\ checked_args' = {}
    /\ args' = << >>
    /\ arg_name' = None
    /\ caller' = who
    /\ pc' = "arg_loop"

\* One error of the first loop over the errors of the root response.  A
\* subselection message for the probed word registers its type and probes
\* the arguments, whether or not a field was found before; a must-have
\* message does so only while no field was found.
ScanError ==
    /\ pc = "scan"
    /\ errIdx <= Len(ErrorMessages(response))
    /\ LET msg == ErrorMessages(response)[errIdx]
           sub == Captures(msg, subselection_regex)
           must == Captures(msg, must_have_selection_regex)
       IN  IF sub.ok /\ sub.caps[2] = word
           THEN /\ discovered_types' = register_type(discovered_types, sub.caps[1])
                /\ field' = InferredField(word, sub.caps[1], FALSE, << >>)
                /\ CallArgs("scan")
                /\ UNCHANGED errIdx
           ELSE IF found_field = << >> /\ must.ok /\ must.caps[1] = word
           THEN /\ discovered_types' = register_type(discovered_types, must.caps[2])
                /\ field' = InferredField(word, must.caps[2], FALSE, << >>)
                /\ CallArgs("scan")
                /\ UNCHANGED errIdx
           ELSE /\ errIdx' = errIdx + 1
                /\ UNCHANGED <<discovered_types, field, argVars, pc>>
    /\ UNCHANGED <<scanVars, probeVars, constVars, opIdx, words_to_check, checked_words, fields, word,
                   response, found_field, discovered_fields, resultVars, requests,
                   errored>>

\* The rest of one iteration: push the field found, extract the suggestions
\* and harvest the type names of the root response.
Post(found) ==
    /\ fields' = IF Len(found) > 0 THEN Append(fields, found[1]) ELSE fields
    /\ discovered_fields' =
            IF Len(found) > 0 THEN discovered_fields \cup {word} ELSE discovered_fields
    /\ words_to_check' =
            ExtractSuggestions(words_to_check, ErrorMessages(response), checked_words)
    /\ discovered_types' = HarvestTypes(discovered_types, ErrorMessages(response))
    /\ pc' = "loop"

\* the first loop over the errors is over
ScanDone ==
    /\ pc = "scan"
    /\ errIdx > Len(ErrorMessages(response))
    /\ Post(found_field)
    /\ UNCHANGED <<scanVars, probeVars, constVars, opIdx, checked_words, word, response, errIdx,
                   found_field, field, argVars, resultVars, requests, errored>>

(***************************************************************************)
(* probe_field.                                                            *)
(***************************************************************************)
\* a request of probe_field failed: `.await?` returns the error from
\* probe_field, probe_root_type and infer
FieldProbeFailed ==
    /\ pc \in {"field_wait1", "field_wait2"}
    /\ TransportError
    /\ pc' = "failed"
    /\ UNCHANGED <<scanVars, probeVars, constVars, opIdx, rootVars, field, argVars, discovered_types,
                   discovered_fields, resultVars, requests>>

\* the answer to  <operation> { <word> { __typename } }
FieldResponse1 ==
    /\ pc = "field_wait1"
    /\ LET c == CharacterizeTypename(Respond(server, Op, word, TRUE, None), word)
       IN  /\ field' = [field EXCEPT !.type_name = c.type_name, !.is_list = c.is_list]
           /\ discovered_types' =
                IF c.registered # None
                THEN register_type(discovered_types, c.registered)
                ELSE discovered_types
           /\ IF c.type_name = None
              THEN /\ CanSend
                   /\ requests' = Append(requests, Request("field", Op, word, FALSE, None))
                   /\ pc' = "field_wait2"
                   /\ UNCHANGED argVars
              ELSE /\ CallArgs("field")
                   /\ UNCHANGED requests
    /\ UNCHANGED <<scanVars, probeVars, constVars, opIdx, rootVars, discovered_fields, resultVars, errored>>

\* the answer to the second  <operation> { <word> }
FieldResponse2 ==
    /\ pc = "field_wait2"
    /\ field' = CharacterizeScalar(Respond(server, Op, word, FALSE, None), field)
    /\ CallArgs("field")
    /\ UNCHANGED <<scanVars, probeVars, constVars, opIdx, rootVars, discovered_types, discovered_fields,
                   resultVars, requests, errored>>

\* what a server that limits the rate of the requests answers out of turn
Throttled(srv) == ErrorBody(srv, <<<<"Too", "many", "requests">>>>)

\* the second  <operation> { <word> }  is answered with that error, not as
\* the same query of the work-queue loop was
FieldResponse2Throttled ==
    /\ pc = "field_wait2"
    /\ field' = CharacterizeScalar(Throttled(server), field)
    /\ CallArgs("field")
    /\ UNCHANGED <<scanVars, probeVars, constVars, opIdx, rootVars, discovered_types, discovered_fields,
                   resultVars, requests, errored>>

(***************************************************************************)
(* probe_field_args.                                                       *)
(***************************************************************************)
\* while let Some(arg_name) = common_args.pop(): skip a checked name, else
\* send  <operation> { <field>(<arg_name>: null) }
PopArg ==
    /\ pc = "arg_loop"
    /\ Len(common_args) > 0
    /\ LET a == common_args[Len(common_args)]
       IN  /\ common_args' = SubSeq(common_args, 1, Len(common_args) - 1)
           /\ IF AlreadyChecked(checked_args, a)
              THEN UNCHANGED <<checked_args, arg_name, requests, pc>>
              ELSE /\ CanSend
                   /\ checked_args' = MarkChecked(checked_args, a)
                   /\ arg_name' = a
                   /\ requests' = Append(requests, Request("args", Op, word, FALSE, a))
                   /\ pc' = "arg_wait"
    /\ UNCHANGED <<scanVars, probeVars, constVars, opIdx, rootVars, field, args, caller, discovered_types,
                   discovered_fields, resultVars, errored>>

\* the argument probe failed: `if let Ok(resp)` skips it
ArgProbeFailed ==
    /\ pc = "arg_wait"
    /\ TransportError
    /\ pc' = "arg_loop"
    /\ UNCHANGED <<scanVars, probeVars, constVars, opIdx, rootVars, field, argVars, discovered_types,
                   discovered_fields, resultVars, requests>>

\* the argument probe was answered
ArgResponse ==
    /\ pc = "arg_wait"
    /\ LET r == Respond(server, Op, word, FALSE, arg_name)
           res == ArgScan(ErrorMessages(r), common_args, checked_args, arg_name)
       IN  /\ common_args' = res.queue
           /\ args' = args \o res.found
    /\ pc' = "arg_loop"
    /\ UNCHANGED <<scanVars, probeVars, constVars, opIdx, rootVars, field, checked_args, arg_name, caller,
                   discovered_types, discovered_fields, resultVars, requests, errored>>

\* the argument queue is drained and the error loop awaited it: the field
\* is found, and the loop goes on to the next error
ArgsReturnToScan ==
    /\ pc = "arg_loop"
    /\ Len(common_args) = 0
    /\ caller = "scan"
    /\ found_field' = <<[field EXCEPT !.args = args]>>
    /\ errIdx' = errIdx + 1
    /\ pc' = "scan"
    /\ UNCHANGED <<scanVars, probeVars, constVars, opIdx, words_to_check, checked_words, fields, word,
                   response, field, argVars, discovered_types, discovered_fields,
                   resultVars, requests, errored>>

\* the argument queue is drained and probe_field awaited it: probe_field
\* returns the field, the error loop is skipped, the iteration ends
ArgsReturnToField ==
    /\ pc = "arg_loop"
    /\ Len(common_args) = 0
    /\ caller = "field"
    /\ found_field' = <<[field EXCEPT !.args = args]>>
    /\ Post(found_field')
    /\ UNCHANGED <<scanVars, probeVars, constVars, opIdx, checked_words, word, response, errIdx, field,
                   argVars, resultVars, requests, errored>>

(***************************************************************************)
(* infer and run_infer.                                                    *)
(***************************************************************************)
\* what infer does with the fields probe_root_type returned
WithRoot(types, op, fs) ==
    IF Len(fs) > 0 THEN MapInsert(types, RootName(op), InferredType(RootName(op), fs))
    ELSE types

MapGet(types, key) == IF key \in DOMAIN types THEN <<types[key]>> ELSE << >>

\* the work queue is drained: probe_root_type returns, infer stores the
\* root type and probes the next operation
NextOperation ==
    /\ pc = "loop"
    /\ Len(words_to_check) = 0
    /\ opIdx < Len(Operations)
    /\ discovered_types' = WithRoot(discovered_types, Op, fields)
    /\ opIdx' = opIdx + 1
    /\ words_to_check' = wordlist
    /\ checked_words' = {}
    /\ fields' = << >>
    /\ UNCHANGED <<scanVars, probeVars, constVars, pc, word, response, errIdx, found_field, field, argVars,
                   discovered_fields, resultVars, requests, errored>>

\* the last work queue is drained: infer returns the schema
InferReturns ==
    /\ pc = "loop"
    /\ Len(words_to_check) = 0
    /\ opIdx = Len(Operations)
    /\ discovered_types' = WithRoot(discovered_types, Op, fields)
    /\ schema' = [query_type |-> MapGet(discovered_types', "Query"),
                  mutation_type |-> MapGet(discovered_types', "Mutation"),
                  subscription_type |-> MapGet(discovered_types', "Subscription"),
                  types |-> discovered_types']
    /\ pc' = "returned"
    /\ UNCHANGED <<scanVars, probeVars, constVars, opIdx, rootVars, field, argVars, discovered_fields,
                   output, requests, errored>>

\* the reference to a field's type in the introspection format:
\* [kind, name, ofKind, ofName]
TypeRefOf(f) ==
    LET kind == IF f.type_name # None /\ IsScalarName(f.type_name)
                THEN "SCALAR" ELSE "OBJECT"
        name == IF f.type_name # None THEN f.type_name ELSE "String"
    IN  IF f.is_list
        THEN [kind |-> "LIST", name |-> None, ofKind |-> kind, ofName |-> name]
        ELSE [kind |-> kind, name |-> name, ofKind |-> None, ofName |-> None]

ArgOut(a) ==
    [name |-> a.name,
     type |-> [kind |-> "SCALAR",
               name |-> IF a.type_name # None THEN a.type_name ELSE "String",
               ofKind |-> None, ofName |-> None]]

FieldOut(f) ==
    [name |-> f.name,
     args |-> [i \in 1..Len(f.args) |-> ArgOut(f.args[i])],
     type |-> TypeRefOf(f)]

\* one element of the types list; fields is null when there is none
TypeOut(kind, name, fs) ==
    [kind |-> kind, name |-> name, fieldsNull |-> (Len(fs) = 0),
     fields |-> [i \in 1..Len(fs) |-> FieldOut(fs[i])]]

ScalarsOut == [i \in 1..Len(SCALAR_TYPES) |-> TypeOut("SCALAR", SCALAR_TYPES[i], << >>)]

\* the orders a HashMap may iterate its keys in
Orders(keys) ==
    {o \in [1..Cardinality(keys) -> keys] : \A i, j \in DOMAIN o : i # j => o[i] # o[j]}

RootRef(t) == IF Len(t) > 0 THEN t[1].name ELSE None

\* SchemaInferrer::to_introspection_format, the map iterated in `order`
to_introspection_format(sch, order) ==
    [queryType |-> RootRef(sch.query_type),
     mutationType |-> RootRef(sch.mutation_type),
     subscriptionType |-> RootRef(sch.subscription_type),
     types |-> ScalarsOut \o
               [i \in 1..Len(order) |->
                    TypeOut(sch.types[order[i]].kind, sch.types[order[i]].name,
                            sch.types[order[i]].fields)]]

\* run_infer converts the schema infer returned
Emit ==
    /\ pc = "returned"
    /\ \E order \in Orders(DOMAIN schema.types) :
            output' = to_introspection_format(schema, order)
    /\ pc' = "done"
    /\ UNCHANGED <<scanVars, probeVars, constVars, opIdx, rootVars, field, argVars, discovered_types,
                   discovered_fields, schema, requests, errored>>

InferNext ==
    \/ PopWord
    \/ RootProbeFailed
    \/ RootResponse
    \/ ScanError
    \/ ScanDone
    \/ FieldProbeFailed
    \/ FieldResponse1
    \/ FieldResponse2
    \/ FieldResponse2Throttled
    \/ PopArg
    \/ ArgProbeFailed
    \/ ArgResponse
    \/ ArgsReturnToScan
    \/ ArgsReturnToField
    \/ NextOperation
    \/ InferReturns
    \/ Emit

(***************************************************************************)
(* The scan harness: run_scan over the probes of all_tests.                *)
(***************************************************************************)
Test(name, severity) == [name |-> name, severity |-> severity]

\* all_tests: the built-in probes, in declaration order
all_tests ==
    <<Test("alias_overloading", "HIGH"),
      Test("batch_query", "HIGH"),
      Test("directive_overloading", "HIGH"),
      Test("circular_introspection", "HIGH"),
      Test("field_duplication", "HIGH"),
      Test("depth_limit", "HIGH"),
      Test("query_complexity", "HIGH"),
      Test("introspection", "HIGH"),
      Test("graphiql", "LOW"),
      Test("field_suggestions", "LOW"),
      Test("trace_mode", "INFO"),
      Test("unhandled_errors", "INFO"),
      Test("get_query_support", "MEDIUM"),
      Test("get_mutation", "MEDIUM"),
      Test("post_urlencoded", "MEDIUM")>>

TestNames == {all_tests[i].name : i \in 1..Len(all_tests)}

\* the probes whose run starts with fetch_schema
SchemaTests == {"depth_limit", "query_complexity"}

\* A server behind a target URL: whether the detection query finds GraphQL
\* there, the probes whose request it answers in the way their verdict rule
\* takes for vulnerable, whether the introspection query is answered with
\* data, and whether the schema has the path depth_limit and
\* query_complexity search it for.
Site(graphql, open, introspection, path) ==
    [graphql |-> graphql, open |-> open, introspection |-> introspection,
     path |-> path]

Sites ==
    {Site(TRUE, TestNames, "data", TRUE),
     Site(TRUE, {"introspection", "trace_mode", "get_query_support"}, "data", FALSE),
     Site(FALSE, {"graphiql", "get_mutation"}, "nodata", FALSE)}

\* the values of --exclude
Exclusions == {{}, {"depth_limit", "graphiql", "get_mutation"}}

TargetLists == UNION {[1..n -> Sites] : n \in 1..MaxTargets}

\* the closure severity_order of the sort
severity_order(s) ==
    CASE s = "HIGH" -> 0
      [] s = "MEDIUM" -> 1
      [] s = "LOW" -> 2
      [] OTHER -> 3

\* insert r before the results that do not come before it
RECURSIVE InsertBeforeEquals(_, _)
InsertBeforeEquals(sorted, r) ==
    IF Len(sorted) = 0 THEN <<r>>
    ELSE IF severity_order(sorted[Len(sorted)].severity) < severity_order(r.severity)
         THEN Append(sorted, r)
         ELSE Append(InsertBeforeEquals(SubSeq(sorted, 1, Len(sorted) - 1), r),
                     sorted[Len(sorted)])

\* insert r behind the results that do not come after it
RECURSIVE InsertBySeverity(_, _)
InsertBySeverity(sorted, r) ==
    IF Len(sorted) = 0 THEN <<r>>
    ELSE IF severity_order(sorted[Len(sorted)].severity) <= severity_order(r.severity)
         THEN Append(sorted, r)
         ELSE Append(InsertBySeverity(SubSeq(sorted, 1, Len(sorted) - 1), r),
                     sorted[Len(sorted)])

\* the sort that leaves the results in the order they came in
KeepOrder(rs) == rs

\* results.sort_by(severity_order): a stable sort
RECURSIVE SortBySeverity(_)
SortBySeverity(rs) ==
    IF Len(rs) = 0 THEN << >>
    ELSE InsertBySeverity(SortBySeverity(SubSeq(rs, 1, Len(rs) - 1)), rs[Len(rs)])

TestResult(test, vulnerable, curl_command) ==
    [name |-> test.name, severity |-> test.severity, vulnerable |-> vulnerable,
     curl_command |-> curl_command]

IsVulnerable(r) == r.vulnerable

\* what is written for one target: the array of the results as JSON, or in
\* text the results that are vulnerable (print_result returns on the others)
Printed(fmt, rs) ==
    IF fmt = "json" THEN rs
    ELSE SelectSeq(rs, IsVulnerable)

\* the filter that keeps every probe
AllTestsActive(ex) == all_tests

\* the filter that hands the probes over last to first
ReversedTests(ex) ==
    LET keep(t) == t.name \notin ex
        kept == SelectSeq(all_tests, keep)
    IN  [i \in 1..Len(kept) |-> kept[Len(kept) + 1 - i]]

\* tests.iter().filter(|t| !excluded.contains(&t.name()))
ActiveTests(ex) ==
    LET keep(t) == t.name \notin ex
    IN  SelectSeq(all_tests, keep)

ScanInit ==
    /\ targets \in TargetLists
    /\ excluded \in Exclusions
    /\ force \in BOOLEAN
    /\ format \in {"text", "json"}
    /\ spc = "target"
    /\ tIdx = 1
    /\ active_tests = << >>
    /\ testIdx = 0
    /\ results = << >>
    /\ returned = << >>
    /\ faulted = {}
    /\ outputs = << >>
    /\ scan_errored = FALSE
    /\ runs = << >>
    /\ wire = << >>
    /\ in_flight = 0
    /\ detections = << >>
    /\ InferState(<< >>, Server("me", "subsel", FALSE, FALSE), "idle")
    /\ ProbeIdle

configVars == <<targets, excluded, force, format>>

ScanTransportError ==
    /\ ~scan_errored
    /\ scan_errored' = TRUE

\* HttpClient: a request leaves for the target on behalf of the function by,
\* under the test name label
Send(by, label) ==
    /\ wire' = Append(wire, [target |-> tIdx, by |-> by, label |-> label])
    /\ in_flight' = in_flight + 1

\* the awaited request was answered or failed
Receive ==
    /\ in_flight' = in_flight - 1
    /\ UNCHANGED wire

\* the awaited request was answered and the next one leaves
ReceiveThenSend(by, label) ==
    /\ wire' = Append(wire, [target |-> tIdx, by |-> by, label |-> label])
    /\ in_flight' = (in_flight - 1) + 1

\* the gate that lets every target through
ScansAnyway(detection) == TRUE

\* match is_graphql_endpoint(..): Ok(true) goes on to the probes, Ok(false)
\* and Err(e) continue with the next target
Scans(detection) == detection = "true"

\* let mut results = Vec::new(); let active_tests = ...
StartTests ==
    /\ active_tests' = ActiveTests(excluded)
    /\ testIdx' = 1
    /\ results' = << >>
    /\ returned' = << >>
    /\ spc' = "tests"

\* continue: the loop goes to the next target
SkipTarget ==
    /\ tIdx' = tIdx + 1
    /\ spc' = "target"
    /\ UNCHANGED <<active_tests, testIdx, results, returned>>

\* for url in targets: with --force the probes run at once, otherwise
\* is_graphql_endpoint sends the detection query
NextTarget ==
    /\ spc = "target"
    /\ tIdx <= Len(targets)
    /\ IF force
       THEN StartTests /\ UNCHANGED <<wire, in_flight>>
       ELSE /\ spc' = "detect_wait"
            /\ Send("detection", "detection")
            /\ UNCHANGED <<active_tests, testIdx, results, returned>>
    /\ UNCHANGED <<inferVars, probeVars, configVars, tIdx, faulted, outputs,
                   scan_errored, runs, detections>>

\* is_graphql_endpoint returned Ok(true) or Ok(false)
Detected ==
    /\ spc = "detect_wait"
    /\ Receive
    /\ LET detection == IF targets[tIdx].graphql THEN "true" ELSE "false"
       IN  /\ detections' = Append(detections, [target |-> tIdx, detection |-> detection])
           /\ IF Scans(detection)
              THEN StartTests /\ UNCHANGED tIdx
              ELSE SkipTarget
    /\ UNCHANGED <<inferVars, probeVars, configVars, faulted, outputs, scan_errored,
                   runs>>

\* is_graphql_endpoint returned Err: the target is skipped
DetectionFailed ==
    /\ spc = "detect_wait"
    /\ ScanTransportError
    /\ Receive
    /\ detections' = Append(detections, [target |-> tIdx, detection |-> "error"])
    /\ IF Scans("error")
       THEN StartTests /\ UNCHANGED tIdx
       ELSE SkipTarget
    /\ UNCHANGED <<inferVars, probeVars, configVars, faulted, outputs, runs>>

\* Ok(result) => results.push(result)
PushResult(r) ==
    /\ results' = Append(results, r)
    /\ returned' = Append(returned, r)
    /\ testIdx' = testIdx + 1
    /\ spc' = "tests"

\* Err(e) => the error is printed with --debug, nothing is pushed
DropResult ==
    /\ testIdx' = testIdx + 1
    /\ spc' = "tests"
    /\ UNCHANGED <<results, returned>>

\* test.run(&client, &url): the probe sends its first request; depth_limit
\* and query_complexity send the query of fetch_schema, which goes out under
\* the test name introspection
RunTest ==
    /\ spc = "tests"
    /\ testIdx <= Len(active_tests)
    /\ LET name == active_tests[testIdx].name
       IN  /\ runs' = Append(runs, [target |-> tIdx, name |-> name])
           /\ IF name \in SchemaTests
              THEN spc' = "schema_wait" /\ Send(name, "introspection")
              ELSE spc' = "probe_wait" /\ Send(name, name)
    /\ UNCHANGED <<inferVars, probeVars, configVars, tIdx, active_tests, testIdx,
                   results, returned, faulted, outputs, scan_errored, detections>>

\* fetch_schema returned: without data in the answer it is an Err, and
\* run returns Ok with a result that is not vulnerable; so it does when the
\* schema has no path; otherwise the probe sends its query
SchemaFetched ==
    /\ spc = "schema_wait"
    /\ LET site == targets[tIdx]
           test == active_tests[testIdx]
       IN  IF site.introspection # "data"
           THEN /\ PushResult(TestResult(test, FALSE, "Introspection failed"))
                /\ Receive
           ELSE IF ~site.path
                THEN /\ PushResult(TestResult(test, FALSE, "No path found in schema"))
                     /\ Receive
                ELSE /\ spc' = "probe_wait"
                     /\ ReceiveThenSend(test.name, test.name)
                     /\ UNCHANGED <<testIdx, results, returned>>
    /\ UNCHANGED <<inferVars, probeVars, configVars, tIdx, active_tests, faulted,
                   outputs, scan_errored, runs, detections>>

\* the request of fetch_schema failed: Err(_) => return Ok(TestResult {
\* vulnerable: false, .. })
SchemaFetchFailed ==
    /\ spc = "schema_wait"
    /\ ScanTransportError
    /\ Receive
    /\ faulted' = faulted \cup {<<tIdx, active_tests[testIdx].name>>}
    /\ PushResult(TestResult(active_tests[testIdx], FALSE, "Introspection failed"))
    /\ UNCHANGED <<inferVars, probeVars, configVars, tIdx, active_tests, outputs,
                   runs, detections>>

\* the probe's request was answered: run returns Ok with the verdict
ProbeResponse ==
    /\ spc = "probe_wait"
    /\ Receive
    /\ LET test == active_tests[testIdx]
       IN  PushResult(TestResult(test, test.name \in targets[tIdx].open, "curl"))
    /\ UNCHANGED <<inferVars, probeVars, configVars, tIdx, active_tests, faulted,
                   outputs, scan_errored, runs, detections>>

\* the probe's request failed: `.await?` returns the error from run
ProbeFailed ==
    /\ spc = "probe_wait"
    /\ ScanTransportError
    /\ Receive
    /\ faulted' = faulted \cup {<<tIdx, active_tests[testIdx].name>>}
    /\ DropResult
    /\ UNCHANGED <<inferVars, probeVars, configVars, tIdx, active_tests, outputs,
                   runs, detections>>

\* every probe has run: sort the results and write them
SortAndOutput ==
    /\ spc = "tests"
    /\ testIdx > Len(active_tests)
    /\ results' = SortBySeverity(results)
    /\ outputs' = Append(outputs,
                         [target |-> tIdx,
                          tests |-> active_tests,
                          returned |-> returned,
                          results |-> SortBySeverity(results),
                          printed |-> Printed(format, SortBySeverity(results))])
    /\ tIdx' = tIdx + 1
    /\ spc' = "target"
    /\ UNCHANGED <<inferVars, probeVars, configVars, active_tests, testIdx, returned,
                   faulted, scan_errored, runs, wire, in_flight, detections>>

\* the loop over the targets is over: Ok(())
ScanReturns ==
    /\ spc = "target"
    /\ tIdx > Len(targets)
    /\ spc' = "done"
    /\ UNCHANGED <<inferVars, probeVars, configVars, tIdx, active_tests, testIdx,
                   results, returned, faulted, outputs, scan_errored, runs, wire,
                   in_flight, detections>>

ScanNext ==
    \/ NextTarget
    \/ Detected
    \/ DetectionFailed
    \/ RunTest
    \/ SchemaFetched
    \/ SchemaFetchFailed
    \/ ProbeResponse
    \/ ProbeFailed
    \/ SortAndOutput
    \/ ScanReturns

vars == <<inferVars, scanVars, probeVars>>

SpecScan == ScanInit /\ [][ScanNext]_vars

SpecInfer == InferInit /\ [][InferNext]_vars

\* no step of the run is possible: infer returned and its result was
\* written, infer failed, or the bound on the requests is reached
Halted == pc \in {"done", "failed"} \/ ~CanSend

\* The run is never suspended forever: every request is answered or fails
\* (the transport's timeout), and the code between two requests runs.  This
\* is weak fairness of InferNext, WF_vars(InferNext), with its
\* ENABLED <<InferNext>>_vars written as the state predicate ~Halted.
FairSpecInfer == SpecInfer /\ ([]<>Halted \/ []<><<InferNext>>_vars)

(***************************************************************************)
(* JSON values as serde_json::Value reads them, for the probes: a value is *)
(* absent (get returned None), null, a number, a string (its tokens), an   *)
(* array or an object (a function from its keys).                          *)
(***************************************************************************)
Absent == [k |-> "absent"]
Null == [k |-> "null"]
Num == [k |-> "number"]
Str(s) == [k |-> "string", s |-> s]
Arr(a) == [k |-> "array", a |-> a]
Obj(m) == [k |-> "object", m |-> m]

\* Value::get(key): None on anything but an object that has the key
get(v, key) ==
    IF v.k = "object" /\ key \in DOMAIN v.m THEN v.m[key] ELSE Absent

\* Option::is_some
is_some(v) == v.k # "absent"

\* what a request comes back with: a response with a body, or an error of
\* the transport
Answer(body) == [kind |-> "ok", body |-> body]
Failure == [kind |-> "err"]

\* Result: Ok(value) and Err(e)
Ok(value) == [kind |-> "ok", value |-> value]
Err == [kind |-> "err"]

\* from_response: a body that is not JSON is replaced
NotJson == Obj([error |-> Str(<<"Failed", "to", "parse", "response", "as", "JSON">>)])

(***************************************************************************)
(* is_graphql_endpoint                                                     *)
(***************************************************************************)
DETECTION_QUERY == <<"query", "{", "__typename", "}">>

valid_roots == <<"Query", "QueryRoot", "query_root", "Root">>

\* the detector that takes every answer for GraphQL
DetectsAnything(body) == TRUE

\* the body of is_graphql_endpoint behind the `?`
DetectsGraphql(body) ==
    LET typename == get(get(body, "data"), "__typename")
        errors == get(body, "errors")
    IN  \/ /\ typename.k = "string"
           /\ \E i \in 1..Len(valid_roots) : typename.s = <<valid_roots[i]>>
        \/ /\ errors.k = "array"
           /\ \E i \in 1..Len(errors.a) :
                  \/ is_some(get(errors.a[i], "locations"))
                  \/ is_some(get(errors.a[i], "extensions"))

\* the error of the request is returned by `?`
is_graphql_endpoint(answer) ==
    IF answer.kind = "err" THEN Err ELSE Ok(DetectsGraphql(answer.body))

\* the data members of the answers to the detection query
DetectionData ==
    {Absent, Null, Str(<<"Query">>), Obj([other |-> Null]),
     Obj([__typename |-> Null]), Obj([__typename |-> Num])}
    \cup {Obj([__typename |-> Str(<<r>>)]) :
              r \in {"Query", "QueryRoot", "query_root", "Root", "Mutation",
                     "query", "User"}}

PlainError == Obj([message |-> Str(<<"Unauthorized">>)])
LocatedError == Obj([message |-> Str(<<"Syntax", "Error">>), locations |-> Arr(<<Num>>)])
NullLocationError == Obj([message |-> Str(<<"Syntax", "Error">>), locations |-> Null])
ExtendedError ==
    Obj([message |-> Str(<<"Unauthorized">>),
         extensions |-> Obj([code |-> Str(<<"UNAUTHENTICATED">>)])])

\* the errors members of the answers to the detection query
DetectionErrors ==
    {Absent, Null, PlainError, Str(<<"Unauthorized">>), Arr(<< >>),
     Arr(<<PlainError>>), Arr(<<LocatedError>>), Arr(<<ExtendedError>>),
     Arr(<<NullLocationError>>), Arr(<<Str(<<"Unauthorized">>)>>),
     Arr(<<PlainError, PlainError>>), Arr(<<PlainError, LocatedError>>),
     Arr(<<PlainError, ExtendedError>>)}

\* an object of the members that are there
Members(data, errors) ==
    IF is_some(data) /\ is_some(errors) THEN Obj([data |-> data, errors |-> errors])
    ELSE IF is_some(data) THEN Obj([data |-> data])
    ELSE IF is_some(errors) THEN Obj([errors |-> errors])
    ELSE Obj([message |-> Str(<<"Not", "Found">>)])

DetectionAnswers ==
    {Answer(Members(d, e)) : d \in DetectionData, e \in DetectionErrors}
    \cup {Answer(NotJson), Answer(Arr(<<Obj([data |-> Obj([__typename |-> Str(<<"Query">>)])])>>)),
          Failure}

\* no inferrer is running
InferIdle == InferState(<< >>, Server("me", "subsel", FALSE, FALSE), "idle")

\* a call of function p against a server that answers as e says
ProbeState(p, e) ==
    /\ probe = p
    /\ ppc = "call"
    /\ env = e
    /\ pIdx = 0
    /\ found_urls = << >>
    /\ queries = << >>
    /\ outcome = NoOutcome
    /\ client \in Clients
    /\ ScanIdle
    /\ InferIdle

DetectionInit == \E e \in DetectionAnswers : ProbeState("detection", e)

\* client.post_graphql(url, DETECTION_QUERY, None, Some("detection"))
DetectionSend ==
    /\ probe = "detection"
    /\ ppc = "call"
    /\ queries' = Append(queries, Sent(client, DETECTION_QUERY, "detection"))
    /\ ppc' = "wait"
    /\ UNCHANGED <<inferVars, scanVars, client, probe, env, pIdx, found_urls, outcome>>

\* the request was answered or failed: is_graphql_endpoint returns
DetectionReturns ==
    /\ probe = "detection"
    /\ ppc = "wait"
    /\ outcome' = is_graphql_endpoint(env)
    /\ ppc' = "done"
    /\ UNCHANGED <<inferVars, scanVars, client, probe, env, pIdx, found_urls, queries>>

DetectionNext == DetectionSend \/ DetectionReturns

SpecDetection == DetectionInit /\ [][DetectionNext]_vars

(***************************************************************************)
(* EndpointDiscovery::discover                                             *)
(***************************************************************************)
\* the paths of the candidate list
Paths == {"/graphql", "/api"}

\* what the server can answer to the detection query at a candidate
DiscoveryAnswers ==
    {Answer(Obj([data |-> Obj([__typename |-> Str(<<"Query">>)])])),
     Answer(Obj([errors |-> Arr(<<LocatedError>>)])),
     Answer(NotJson),
     Failure}

Candidate(path, answer) == [path |-> path, answer |-> answer]

Candidates == {Candidate(p, a) : p \in Paths, a \in DiscoveryAnswers}

\* self.paths, each with what its URL answers
CandidateLists == UNION {[1..n -> Candidates] : n \in 0..MaxPaths}

\* url.set_path(path); url.to_string()
url_str(path) == <<"http://target", path>>

\* the match arm that collects whatever detection returned
CollectsUnlessFalse(result) == result # Ok(FALSE)

\* Ok(true) => found.push(url_str), _ => {}
Collects(result) == result = Ok(TRUE)

DiscoveryInit == \E e \in CandidateLists : ProbeState("discover", e)

\* for path in &self.paths: is_graphql_endpoint sends the detection query
DiscoverTry ==
    /\ probe = "discover"
    /\ ppc = "call"
    /\ pIdx < Len(env)
    /\ queries' = Append(queries, [url |-> url_str(env[pIdx + 1].path),
                                   query |-> DETECTION_QUERY,
                                   label |-> "detection",
                                   headers |->
                                       apply_headers(client, Some("detection"))])
    /\ ppc' = "wait"
    /\ UNCHANGED <<inferVars, scanVars, client, probe, env, pIdx, found_urls, outcome>>

\* is_graphql_endpoint returned
Matched(result) ==
    /\ found_urls' = IF Collects(result)
                     THEN Append(found_urls, url_str(env[pIdx + 1].path))
                     ELSE found_urls
    /\ pIdx' = pIdx + 1
    /\ ppc' = "call"
    /\ UNCHANGED <<inferVars, scanVars, client, probe, env, queries, outcome>>

\* the candidate answered
DiscoverAnswered ==
    /\ probe = "discover"
    /\ ppc = "wait"
    /\ env[pIdx + 1].answer.kind = "ok"
    /\ Matched(is_graphql_endpoint(env[pIdx + 1].answer))

\* the request to the candidate failed
DiscoverFailed ==
    /\ probe = "discover"
    /\ ppc = "wait"
    /\ env[pIdx + 1].answer.kind = "err"
    /\ Matched(is_graphql_endpoint(env[pIdx + 1].answer))

\* the loop is over: found
DiscoverReturns ==
    /\ probe = "discover"
    /\ ppc = "call"
    /\ pIdx = Len(env)
    /\ outcome' = Ok(found_urls)
    /\ ppc' = "done"
    /\ UNCHANGED <<inferVars, scanVars, client, probe, env, pIdx, found_urls, queries>>

DiscoveryNext == DiscoverTry \/ DiscoverAnswered \/ DiscoverFailed \/ DiscoverReturns

SpecDiscovery == DiscoveryInit /\ [][DiscoveryNext]_vars

(***************************************************************************)
(* The schema of an introspection answer (schema/introspection.rs).        *)
(***************************************************************************)
\* TypeRef: the chain of kind and name from the outermost wrapper down the
\* of_type members
Named(kind, name) == <<[kind |-> kind, name |-> name]>>
NonNull(t) == <<[kind |-> "NON_NULL", name |-> None]>> \o t
ListOf(t) == <<[kind |-> "LIST", name |-> None]>> \o t

\* TypeRef::get_base_type_name
RECURSIVE get_base_type_name(_)
get_base_type_name(t) ==
    IF Len(t) = 0 THEN None
    ELSE IF t[1].name # None THEN t[1].name
    ELSE get_base_type_name(Tail(t))

\* TypeRef::is_list
RECURSIVE is_list(_)
is_list(t) ==
    IF Len(t) = 0 THEN FALSE
    ELSE IF t[1].kind = "LIST" THEN TRUE
    ELSE is_list(Tail(t))

Field(name, field_type) == [name |-> name, field_type |-> field_type]
FullType(name, type_fields) == [name |-> name, fields |-> type_fields]
Schema(query_type, types) == [query_type |-> query_type, types |-> types]

\* iter().find(..): the first element, if there is one
First(s, hits) ==
    IF hits = {} THEN Nothing
    ELSE Some(s[CHOOSE i \in hits : \A j \in hits : i <= j])

\* Schema::get_type
get_type(s, name) == First(s.types, {i \in 1..Len(s.types) : s.types[i].name = name})

\* Schema::get_query_type
get_query_type(s) ==
    IF s.query_type = None THEN Nothing ELSE get_type(s, s.query_type)

\* if let Some(fields) = &t.fields: the fields of a type, none when null
FieldsOf(t) == IF t.fields.some THEN t.fields.v ELSE << >>

\* the fields of the type a name stands for, none for None or no such type
FieldsOfNamed(s, name) ==
    IF name = None THEN << >>
    ELSE LET t == get_type(s, name)
         IN  IF t.some THEN FieldsOf(t.v) ELSE << >>

\* fetch_schema: the error of the request, no data, or data that is no
\* schema are an Err
fetch_schema(answer) ==
    IF answer.kind = "err" THEN Err
    ELSE LET data == get(answer.body, "data")
         IN  IF data.k = "schema" THEN Ok(data.schema) ELSE Err

\* the JSON object that deserializes to the schema s
SchemaData(s) == [k |-> "schema", schema |-> s]

\* serde_json::to_string of json!({"query": query})
json_query(query) == <<"{", DQ, "query", DQ, ":", DQ>> \o query \o <<DQ, "}">>

\* GraphQLResponse::build_curl
build_curl(url, method, body) ==
    IF method = "GET"
    THEN <<"curl", "-X", "GET", SQ, url, SQ>>
    ELSE <<"curl", "-X", "POST", SQ, url, SQ,
           "-H", SQ, "Content-Type", ":", "application/json", SQ, "-d", SQ>>
             \o body \o <<SQ>>

\* the URL of the target of a probe
TargetUrl == "http://target/graphql"

\* the curl_command of the response to post_graphql(url, query, None, ..)
curl_command_of(query) == build_curl(TargetUrl, "POST", json_query(query))

(***************************************************************************)
(* DepthLimit::run and QueryComplexity::run                                *)
(***************************************************************************)
\* let depth = 64
depth == 64

\* part = format!("{} {{ {} }}", recursive_field, part), n times over
\* "__typename"
RECURSIVE Nest(_, _)
Nest(recursive_field, n) ==
    IF n = 0 THEN <<"__typename">>
    ELSE <<recursive_field, "{">> \o Nest(recursive_field, n - 1) \o <<"}">>

\* format!("query {{ {} {{ {} }} }}", root_field, part)
DeepQuery(root_field, recursive_field) ==
    <<"query", "{", root_field, "{">> \o Nest(recursive_field, depth) \o <<"}", "}">>

\* the search that takes any field of the base type for the recursive one
any_field_of(s, rf) ==
    LET inner_fields == FieldsOfNamed(s, get_base_type_name(rf.field_type))
    IN  IF Len(inner_fields) > 0 THEN inner_fields[1].name ELSE None

\* the inner loop of DepthLimit: the first field of the base type of field
\* whose base type is that type again
recursive_field_of(s, rf) ==
    LET base_type_name == get_base_type_name(rf.field_type)
        inner_fields == FieldsOfNamed(s, base_type_name)
        inner == First(inner_fields,
                       {i \in 1..Len(inner_fields) :
                            /\ get_base_type_name(inner_fields[i].field_type) # None
                            /\ get_base_type_name(inner_fields[i].field_type)
                                   = base_type_name})
    IN  IF inner.some THEN inner.v.name ELSE None

\* the outer loop of DepthLimit: recursive_chain
recursive_chain(s, start_type) ==
    LET root_fields == FieldsOf(start_type)
        rf == First(root_fields,
                    {i \in 1..Len(root_fields) :
                         recursive_field_of(s, root_fields[i]) # None})
    IN  IF rf.some
        THEN Some(<<rf.v.name, recursive_field_of(s, rf.v)>>)
        ELSE Nothing

\* format!("query {{ {} {{ {} {{ {} }} }} }}", f1, f2, f3)
NestedQuery(f1, f2, f3) == <<"query", "{", f1, "{", f2, "{", f3, "}", "}", "}">>

\* the innermost loop of QueryComplexity: the first field of the base type
\* of a list-valued inner field
level2_of(s, inner) ==
    LET level2_fields == FieldsOfNamed(s, get_base_type_name(inner.field_type))
    IN  IF is_list(inner.field_type) /\ Len(level2_fields) > 0
        THEN level2_fields[1].name
        ELSE None

\* the search that does not ask the root field to be a list
inner_of_any(s, rf) ==
    LET inner_fields == FieldsOfNamed(s, get_base_type_name(rf.field_type))
    IN  First(inner_fields, {i \in 1..Len(inner_fields) : level2_of(s, inner_fields[i]) # None})

\* the middle loop of QueryComplexity: the first inner field of a
\* list-valued root field that has a level below it
inner_of(s, rf) ==
    LET inner_fields == IF is_list(rf.field_type)
                        THEN FieldsOfNamed(s, get_base_type_name(rf.field_type))
                        ELSE << >>
    IN  First(inner_fields, {i \in 1..Len(inner_fields) : level2_of(s, inner_fields[i]) # None})

\* the outer loop of QueryComplexity: query_struct
query_struct(s, query_type) ==
    LET root_fields == FieldsOf(query_type)
        rf == First(root_fields,
                    {i \in 1..Len(root_fields) : inner_of(s, root_fields[i]).some})
    IN  IF rf.some
        THEN Some(<<rf.v.name, inner_of(s, rf.v).v.name,
                    level2_of(s, inner_of(s, rf.v).v)>>)
        ELSE Nothing

\* the tokens of Value::to_string(): the keys and the strings at any depth
RECURSIVE Tokens(_)
Tokens(v) ==
    CASE v.k = "string" -> Range(v.s)
      [] v.k = "array" -> UNION {Tokens(v.a[i]) : i \in 1..Len(v.a)}
      [] v.k = "object" -> DOMAIN v.m \cup UNION {Tokens(v.m[key]) : key \in DOMAIN v.m}
      [] v.k = "null" -> {"null"}
      [] OTHER -> {"0"}

\* errors.to_string().to_lowercase().contains(w), w without blanks
Mentions(errors, w) ==
    \E t \in Tokens(errors) : IsInfix(Chars(w), to_lowercase(Chars(t)))

\* the verdict of DepthLimit
depth_vulnerable(body) ==
    LET errors == get(body, "errors")
    IN  IF is_some(errors)
        THEN ~Mentions(errors, "depth") /\ ~Mentions(errors, "complexity")
        ELSE is_some(get(body, "data"))

\* the verdict of QueryComplexity
complexity_vulnerable(body) ==
    LET errors == get(body, "errors")
    IN  IF is_some(errors)
        THEN /\ ~Mentions(errors, "complexity")
             /\ ~Mentions(errors, "cost")
             /\ ~Mentions(errors, "score")
        ELSE is_some(get(body, "data"))

\* the schemas the introspection query is answered with
StringType == Named("SCALAR", "String")
IdType == NonNull(Named("SCALAR", "ID"))
BuiltinTypes == <<FullType("String", Nothing), FullType("ID", Nothing)>>

\* Query.me -> User, User.friends -> [User!]!; Query.users -> [User!]!
SocialSchema ==
    Schema("Query",
           <<FullType("Query",
                      Some(<<Field("version", StringType),
                             Field("me", NonNull(Named("OBJECT", "User"))),
                             Field("users", NonNull(ListOf(NonNull(Named("OBJECT", "User")))))>>)),
             FullType("User",
                      Some(<<Field("id", IdType),
                             Field("friends", NonNull(ListOf(NonNull(Named("OBJECT", "User"))))),
                             Field("best", Named("OBJECT", "User"))>>))>>
           \o BuiltinTypes)

\* lists below lists and no recursion
BlogSchema ==
    Schema("Query",
           <<FullType("Query", Some(<<Field("posts", ListOf(Named("OBJECT", "Post")))>>)),
             FullType("Post",
                      Some(<<Field("title", StringType),
                             Field("tags", ListOf(StringType)),
                             Field("comments", ListOf(Named("OBJECT", "Comment")))>>)),
             FullType("Comment", Some(<<Field("text", StringType)>>))>>
           \o BuiltinTypes)

\* a recursion below a root field that is no list
TreeSchema ==
    Schema("Root",
           <<FullType("Root",
                      Some(<<Field("count", StringType),
                             Field("node", Named("OBJECT", "Node"))>>)),
             FullType("Node",
                      Some(<<Field("id", IdType),
                             Field("children", ListOf(Named("OBJECT", "Node"))),
                             Field("parent", Named("OBJECT", "Node"))>>))>>
           \o BuiltinTypes)

\* a cycle of three hops: Query.a -> [A], A.b -> [B], B.a -> [A]
CycleSchema ==
    Schema("Query",
           <<FullType("Query", Some(<<Field("a", ListOf(Named("OBJECT", "A")))>>)),
             FullType("A", Some(<<Field("b", ListOf(Named("OBJECT", "B")))>>)),
             FullType("B", Some(<<Field("a", ListOf(Named("OBJECT", "A")))>>))>>)

\* scalars only
FlatSchema ==
    Schema("Query",
           <<FullType("Query",
                      Some(<<Field("version", StringType),
                             Field("names", ListOf(StringType))>>))>>
           \o BuiltinTypes)

\* the root type returns itself
SelfSchema ==
    Schema("Query",
           <<FullType("Query",
                      Some(<<Field("version", StringType),
                             Field("query", NonNull(Named("OBJECT", "Query")))>>))>>
           \o BuiltinTypes)

\* the type of the root field is not among the types
DanglingSchema ==
    Schema("Query",
           <<FullType("Query", Some(<<Field("me", ListOf(Named("OBJECT", "User")))>>))>>
           \o BuiltinTypes)

\* queryType is null
NoRootSchema == Schema(None, <<FullType("User", Some(<<Field("me", Named("OBJECT", "User"))>>))>>)

\* queryType names a type that is not among the types
MissingRootSchema ==
    Schema("Query", <<FullType("User", Some(<<Field("me", Named("OBJECT", "User"))>>))>>)

\* the fields of the root type are null
NullFieldsSchema == Schema("Query", <<FullType("Query", Nothing)>> \o BuiltinTypes)

\* a list below a list whose type has an empty field list, and a type
\* reference that ends without a name
EmptyLeafSchema ==
    Schema("Query",
           <<FullType("Query",
                      Some(<<Field("deep", NonNull(ListOf(<< >>))),
                             Field("items", ListOf(Named("OBJECT", "Item")))>>)),
             FullType("Item",
                      Some(<<Field("deep", ListOf(<< >>)),
                             Field("parts", ListOf(Named("OBJECT", "Part")))>>)),
             FullType("Part", Some(<< >>))>>)

IntrospectedSchemas ==
    {SocialSchema, BlogSchema, TreeSchema, CycleSchema, FlatSchema, SelfSchema,
     DanglingSchema, NoRootSchema, MissingRootSchema, NullFieldsSchema,
     EmptyLeafSchema}

\* what the server answers to the introspection query
IntrospectionAnswers ==
    {Failure, Answer(NotJson), Answer(Obj([data |-> Null])),
     Answer(Obj([errors |-> Arr(<<PlainError>>)]))}
    \cup {Answer(Obj([data |-> SchemaData(s)])) : s \in IntrospectedSchemas}

ErrorSaying(message) == Obj([message |-> Str(message)])

\* what the server answers to the query of depth_limit or query_complexity
PayloadAnswers ==
    {Failure,
     Answer(NotJson),
     Answer(Obj([message |-> Str(<<"Payload", "too", "large">>)])),
     Answer(Obj([data |-> Obj([me |-> Null])])),
     Answer(Obj([data |-> Null, errors |-> Null])),
     Answer(Obj([errors |-> Arr(<< >>)])),
     Answer(Obj([data |-> Null, errors |-> Arr(<<PlainError>>)])),
     Answer(Obj([errors |-> Arr(<<ErrorSaying(<<"Query", "depth", "limit", "exceeded">>)>>)])),
     Answer(Obj([errors |-> Arr(<<ErrorSaying(<<"Max", "Depth", "of", "10", "exceeded">>)>>)])),
     Answer(Obj([errors |-> Arr(<<PlainError,
                                  ErrorSaying(<<"Query", "is", "too", "complex">>),
                                  ErrorSaying(<<"exceeds", "maxDepth">>)>>)])),
     Answer(Obj([errors |-> Arr(<<Obj([message |-> Str(<<"Rejected">>),
                                       extensions |-> Obj([code |-> Str(<<"COMPLEXITY_LIMIT">>)])])>>)])),
     Answer(Obj([errors |-> Arr(<<ErrorSaying(<<"Query", "cost", "1000", "exceeds", "100">>)>>)])),
     Answer(Obj([errors |-> Arr(<<Obj([message |-> Str(<<"Rejected">>),
                                       score |-> Num])>>)]))}

\* the probe of all_tests with the name
TestNamed(name) == all_tests[CHOOSE i \in 1..Len(all_tests) : all_tests[i].name = name]

FULL_INTROSPECTION_QUERY == <<"query", "IntrospectionQuery", "{", "__schema", "}">>

\* what run does with the schema: the query it sends, or the reproducer
\* string it returns without sending one
Plan(query, diagnostic) == [query |-> query, diagnostic |-> diagnostic]

depth_plan(s) ==
    LET start_type == get_query_type(s)
    IN  IF ~start_type.some THEN Plan(Nothing, <<"No Query type found">>)
        ELSE LET chain == recursive_chain(s, start_type.v)
             IN  IF chain.some
                 THEN Plan(Some(DeepQuery(chain.v[1], chain.v[2])), << >>)
                 ELSE Plan(Nothing, <<"No simple recursive path found in schema">>)

complexity_plan(s) ==
    LET query_type == get_query_type(s)
    IN  IF ~query_type.some THEN Plan(Nothing, <<"No Query type">>)
        ELSE LET found == query_struct(s, query_type.v)
             IN  IF found.some
                 THEN Plan(Some(NestedQuery(found.v[1], found.v[2], found.v[3])), << >>)
                 ELSE Plan(Nothing, <<"No nested lists found for complexity test">>)

PlanOf(p, s) == IF p = "depth_limit" THEN depth_plan(s) ELSE complexity_plan(s)

VerdictOf(p, body) ==
    IF p = "depth_limit" THEN depth_vulnerable(body) ELSE complexity_vulnerable(body)

\* the reproducer string of the Err arm of fetch_schema
FetchDiagnostic(p) ==
    IF p = "depth_limit"
    THEN <<"Introspection failed, cannot build deep query">>
    ELSE <<"Introspection failed">>

SchemaProbeInit ==
    \E p \in SchemaTests : \E i \in IntrospectionAnswers : \E a \in PayloadAnswers :
        ProbeState(p, [introspection |-> i, payload |-> a])

\* run: fetch_schema sends the introspection query
SchemaProbeFetch ==
    /\ probe \in SchemaTests
    /\ ppc = "call"
    /\ queries' = Append(queries, Sent(client, FULL_INTROSPECTION_QUERY, "introspection"))
    /\ ppc' = "fetch_wait"
    /\ UNCHANGED <<inferVars, scanVars, client, probe, env, pIdx, found_urls, outcome>>

\* fetch_schema returned Err: run returns a result that is not vulnerable
SchemaProbeFetchErr ==
    /\ probe \in SchemaTests
    /\ ppc = "fetch_wait"
    /\ fetch_schema(env.introspection) = Err
    /\ outcome' = Ok(TestResult(TestNamed(probe), FALSE, FetchDiagnostic(probe)))
    /\ ppc' = "done"
    /\ UNCHANGED <<inferVars, scanVars, client, probe, env, pIdx, found_urls, queries>>

\* fetch_schema returned the schema and the search found nothing to send
SchemaProbeSkips ==
    /\ probe \in SchemaTests
    /\ ppc = "fetch_wait"
    /\ fetch_schema(env.introspection) # Err
    /\ LET plan == PlanOf(probe, fetch_schema(env.introspection).value)
       IN  /\ ~plan.query.some
           /\ outcome' = Ok(TestResult(TestNamed(probe), FALSE, plan.diagnostic))
    /\ ppc' = "done"
    /\ UNCHANGED <<inferVars, scanVars, client, probe, env, pIdx, found_urls, queries>>

\* fetch_schema returned the schema and the search found a path: the probe
\* sends its query
SchemaProbeSends ==
    /\ probe \in SchemaTests
    /\ ppc = "fetch_wait"
    /\ fetch_schema(env.introspection) # Err
    /\ LET plan == PlanOf(probe, fetch_schema(env.introspection).value)
       IN  /\ plan.query.some
           /\ queries' = Append(queries, Sent(client, plan.query.v, probe))
    /\ ppc' = "payload_wait"
    /\ UNCHANGED <<inferVars, scanVars, client, probe, env, pIdx, found_urls, outcome>>

\* the query was answered: the verdict
SchemaProbeAnswered ==
    /\ probe \in SchemaTests
    /\ ppc = "payload_wait"
    /\ env.payload.kind = "ok"
    /\ outcome' = Ok(TestResult(TestNamed(probe), VerdictOf(probe, env.payload.body),
                                curl_command_of(queries[Len(queries)].query)))
    /\ ppc' = "done"
    /\ UNCHANGED <<inferVars, scanVars, client, probe, env, pIdx, found_urls, queries>>

\* the request of the query failed: `.await?`
SchemaProbeFailed ==
    /\ probe \in SchemaTests
    /\ ppc = "payload_wait"
    /\ env.payload.kind = "err"
    /\ outcome' = Err
    /\ ppc' = "done"
    /\ UNCHANGED <<inferVars, scanVars, client, probe, env, pIdx, found_urls, queries>>

SchemaProbeNext ==
    \/ SchemaProbeFetch
    \/ SchemaProbeFetchErr
    \/ SchemaProbeSkips
    \/ SchemaProbeSends
    \/ SchemaProbeAnswered
    \/ SchemaProbeFailed

SpecSchemaProbe == SchemaProbeInit /\ [][SchemaProbeNext]_vars

(***************************************************************************)
(* FieldSuggestions::run and TraceMode::run                                *)
(***************************************************************************)
\* query { __schema { directive } }
SUGGESTIONS_QUERY == <<"query", "{", "__schema", "{", "directive", "}", "}">>

\* query { __typename }
TRACE_QUERY == <<"query", "{", "__typename", "}">>

\* msg.to_lowercase().contains("did you mean"): a word that ends in did, the
\* word you and a word that starts with mean follow each other
ContainsDidYouMean(msg) ==
    \E i \in 1..(Len(msg) - 2) :
        /\ IsWord(msg[i]) /\ IsWord(msg[i + 1]) /\ IsWord(msg[i + 2])
        /\ IsSuffix(Chars("did"), to_lowercase(Chars(msg[i])))
        /\ to_lowercase(Chars(msg[i + 1])) = Chars("you")
        /\ IsPrefix(Chars("mean"), to_lowercase(Chars(msg[i + 2])))

\* GraphQLResponse::get_first_error_message
get_first_error_message(body) ==
    LET errors == get(body, "errors")
    IN  IF errors.k # "array" THEN Nothing
        ELSE IF Len(errors.a) = 0 THEN Nothing
        ELSE LET message == get(errors.a[1], "message")
             IN  IF message.k = "string" THEN Some(message.s) ELSE Nothing

\* GraphQLResponse::get_extensions
get_extensions(body) ==
    LET errors == get(body, "errors")
    IN  IF errors.k # "array" THEN Absent
        ELSE IF Len(errors.a) = 0 THEN Absent
        ELSE get(errors.a[1], "extensions")

\* the verdict of FieldSuggestions
suggestions_vulnerable(body) ==
    LET msg == get_first_error_message(body)
    IN  IF msg.some THEN ContainsDidYouMean(msg.v) ELSE FALSE

\* the verdict of TraceMode
trace_vulnerable(body) ==
    LET extensions == get_extensions(body)
    IN  IF is_some(extensions) THEN is_some(get(extensions, "tracing")) ELSE FALSE

\* mutation { __typename }
MUTATION_QUERY == <<"mutation", "{", "__typename", "}">>

\* msg.to_lowercase().contains(w), w without blanks
LowerContains(msg, w) ==
    \E i \in 1..Len(msg) : IsInfix(Chars(w), to_lowercase(Chars(msg[i])))

\* the verdict of GetMutation
get_mutation_vulnerable(body) ==
    LET data == get(body, "data")
        msg == get_first_error_message(body)
    IN  IF is_some(data) THEN is_some(get(data, "__typename"))
        ELSE IF msg.some
        THEN /\ ~LowerContains(msg.v, "get")
             /\ ~LowerContainsPair(msg.v, "not", "allowed")
             /\ ~LowerContains(msg.v, "only")
        ELSE FALSE

\* the query of CircularIntrospection: fields { type { ... } } four deep
CIRCULAR_QUERY ==
    <<"query", "{", "__schema", "{", "types", "{",
      "fields", "{", "type", "{", "fields", "{", "type", "{",
      "fields", "{", "type", "{", "fields", "{", "type", "{", "name",
      "}", "}", "}", "}", "}", "}", "}", "}", "}", "}", "}">>

\* arr.len() > 25
TYPES_LIMIT == 25

\* a verdict that counts the limit itself as too many
circular_at_limit(body) ==
    LET types == get(get(get(body, "data"), "__schema"), "types")
    IN  IF types.k = "array" THEN Len(types.a) >= TYPES_LIMIT ELSE FALSE

\* the verdict of CircularIntrospection
circular_vulnerable(body) ==
    LET data == get(body, "data")
    IN  IF is_some(data)
        THEN LET schema_member == get(data, "__schema")
             IN  IF is_some(schema_member)
                 THEN LET types == get(schema_member, "types")
                      IN  IF is_some(types)
                          THEN IF types.k = "array" THEN Len(types.a) > TYPES_LIMIT
                               ELSE FALSE
                          ELSE FALSE
                 ELSE FALSE
        ELSE FALSE

\* the probes of one request that are modelled with their verdict
RequestTests ==
    {"field_suggestions", "trace_mode", "get_mutation", "circular_introspection"}

QueryOf(p) ==
    CASE p = "field_suggestions" -> SUGGESTIONS_QUERY
      [] p = "trace_mode" -> TRACE_QUERY
      [] p = "get_mutation" -> MUTATION_QUERY
      [] p = "circular_introspection" -> CIRCULAR_QUERY

\* the curl_command of the result: curl -G for the probes over GET
curl_of(p) ==
    CASE p = "get_mutation" ->
             <<"curl", "-G", SQ, TargetUrl, SQ, "--data-urlencode", SQ, "query", "=">>
                 \o QueryOf(p) \o <<SQ>>
      [] OTHER -> curl_command_of(QueryOf(p))

RequestVerdict(p, body) ==
    CASE p = "field_suggestions" -> suggestions_vulnerable(body)
      [] p = "trace_mode" -> trace_vulnerable(body)
      [] p = "get_mutation" -> get_mutation_vulnerable(body)
      [] p = "circular_introspection" -> circular_vulnerable(body)

SuggestingError ==
    ErrorSaying(MsgCannotQuery("directive", "__Schema", <<"directives">>))
ShoutingError == ErrorSaying(<<"DID", "YOU", "MEAN", DQ, "directives", DQ, "?">>)
UnsuggestingError == ErrorSaying(MsgCannotQuery("directive", "__Schema", << >>))
NullMessageError == Obj([message |-> Null])
TracedError ==
    Obj([message |-> Str(<<"Unauthorized">>),
         extensions |-> Obj([tracing |-> Obj([version |-> Num])])])

\* arrays of one or two errors
ErrorArrays(firsts, seconds) ==
    {Arr(<<e>>) : e \in firsts} \cup {Arr(<<e, f>>) : e \in firsts, f \in seconds}

\* the bodies with the errors member and with or without a data member
WithErrors(errors) ==
    {Obj([errors |-> e]) : e \in errors} \cup {Obj([data |-> Null, errors |-> e]) : e \in errors}

\* what the server answers to the misspelled query
SuggestionAnswers ==
    {Failure, Answer(NotJson),
     Answer(Obj([data |-> Obj([__schema |-> Null])]))}
    \cup {Answer(b) :
              b \in WithErrors({Null, Arr(<< >>), SuggestingError}
                               \cup ErrorArrays({PlainError, UnsuggestingError,
                                                 SuggestingError, ShoutingError,
                                                 NullMessageError,
                                                 Str(<<"Did", "you", "mean">>)},
                                                {PlainError, SuggestingError}))}

Traced == Obj([tracing |-> Obj([version |-> Num])])
Untraced == Obj([code |-> Str(<<"tracing">>)])
TypenameData == Obj([__typename |-> Str(<<"Query">>)])

\* what the server answers to the trivial query
TraceAnswers ==
    {Failure, Answer(NotJson),
     Answer(Obj([data |-> TypenameData])),
     Answer(Obj([data |-> TypenameData, extensions |-> Traced])),
     Answer(Obj([data |-> TypenameData, extensions |-> Untraced])),
     Answer(Obj([data |-> TypenameData, extensions |-> Null])),
     Answer(Obj([extensions |-> Traced]))}
    \cup {Answer(b) :
              b \in WithErrors({Null, Arr(<< >>)}
                               \cup ErrorArrays({PlainError, ExtendedError, TracedError,
                                                 Str(<<"tracing">>)},
                                                {PlainError, TracedError}))}
    \cup {Answer(Obj([errors |-> e, extensions |-> Traced])) :
              e \in ErrorArrays({PlainError, ExtendedError, TracedError}, {})}

\* the messages a server refuses or answers the mutation over GET with
GetMessages ==
    {<<"Mutation", "over", "GET">>, <<"Mutations", "are", "Not", "Allowed">>,
     <<"Queries", "only">>, <<"Invalid", "target">>, <<"Use", "POST", "ONLY">>,
     MsgNotConfigured("mutation"), <<"Unauthorized">>}

\* what the server answers to the mutation over GET
GetMutationAnswers ==
    {Failure, Answer(NotJson),
     Answer(Obj([data |-> TypenameData])),
     Answer(Obj([data |-> Obj([mutation |-> Null])])),
     Answer(Obj([data |-> Null]))}
    \cup {Answer(b) :
              b \in WithErrors({Null, Arr(<< >>)}
                               \cup ErrorArrays({ErrorSaying(m) : m \in GetMessages}
                                                \cup {NullMessageError},
                                                {PlainError,
                                                 ErrorSaying(<<"Mutation", "over", "GET">>)}))}
    \cup {Answer(Obj([data |-> TypenameData, errors |-> Arr(<<ErrorSaying(m)>>)])) :
              m \in GetMessages}

\* a types array of n elements
TypesArray(n) == Arr([i \in 1..n |-> Obj([fields |-> Null])])

TypeCounts == {0, 1, 24, 25, 26, 27, 40}

\* what the server answers to the circular introspection query
CircularAnswers ==
    {Failure, Answer(NotJson),
     Answer(Obj([data |-> Null])),
     Answer(Obj([data |-> TypenameData])),
     Answer(Obj([data |-> Obj([__schema |-> Null])])),
     Answer(Obj([data |-> Obj([__schema |-> Obj([queryType |-> Null])])])),
     Answer(Obj([data |-> Obj([__schema |-> Obj([types |-> Null])])])),
     Answer(Obj([data |-> Obj([__schema |-> Obj([types |-> Num])])])),
     Answer(Obj([data |-> Obj([__schema |-> Obj([types |-> TypenameData])])])),
     Answer(Obj([__schema |-> Obj([types |-> TypesArray(26)])])),
     Answer(Obj([errors |-> Arr(<<PlainError>>)])),
     Answer(Obj([data |-> Null, errors |-> Arr(<<PlainError>>)]))}
    \cup {Answer(Obj([data |-> Obj([__schema |-> Obj([types |-> TypesArray(n)])])])) :
              n \in TypeCounts}
    \cup {Answer(Obj([data |-> Obj([__schema |-> Obj([types |-> TypesArray(n)])]),
                      errors |-> Arr(<<PlainError>>)])) : n \in TypeCounts}

AnswersTo(p) ==
    CASE p = "field_suggestions" -> SuggestionAnswers
      [] p = "trace_mode" -> TraceAnswers
      [] p = "get_mutation" -> GetMutationAnswers
      [] p = "circular_introspection" -> CircularAnswers

RequestProbeInit ==
    \E p \in RequestTests : \E a \in AnswersTo(p) : ProbeState(p, a)

\* run: client.post_graphql or client.get_graphql with Some(self.name())
RequestProbeSend ==
    /\ probe \in RequestTests
    /\ ppc = "call"
    /\ queries' = Append(queries, Sent(client, QueryOf(probe), probe))
    /\ ppc' = "wait"
    /\ UNCHANGED <<inferVars, scanVars, client, probe, env, pIdx, found_urls, outcome>>

\* the request was answered: the verdict
RequestProbeAnswered ==
    /\ probe \in RequestTests
    /\ ppc = "wait"
    /\ env.kind = "ok"
    /\ outcome' = Ok(TestResult(TestNamed(probe), RequestVerdict(probe, env.body),
                                curl_of(probe)))
    /\ ppc' = "done"
    /\ UNCHANGED <<inferVars, scanVars, client, probe, env, pIdx, found_urls, queries>>

\* the request failed: `.await?`
RequestProbeFailed ==
    /\ probe \in RequestTests
    /\ ppc = "wait"
    /\ env.kind = "err"
    /\ outcome' = Err
    /\ ppc' = "done"
    /\ UNCHANGED <<inferVars, scanVars, client, probe, env, pIdx, found_urls, queries>>

RequestProbeNext == RequestProbeSend \/ RequestProbeAnswered \/ RequestProbeFailed

SpecRequestProbe == RequestProbeInit /\ [][RequestProbeNext]_vars

(***************************************************************************)
(* HttpClient: one call of post_graphql, post_graphql_batch,               *)
(* post_urlencoded or get_graphql, and the GraphQLResponse it returns.     *)
(***************************************************************************)
ClientCalls == {"post_graphql", "post_graphql_batch", "post_urlencoded", "get_graphql"}

Urls == {TargetUrl, "http://other/api"}

CallQueries == {TRACE_QUERY, MUTATION_QUERY}

PassedNames == {Nothing, Some("trace_mode"), Some("get_mutation")}

\* serde_json::to_string of json!(queries), a batch of one query
json_batch(query) == <<"[">> \o json_query(query) \o <<"]">>

\* .form(&params) and .query(&params): query=<query>
form_query(query) == <<"query", "=">> \o query

\* the request the function f builds: what leaves for the server, and the
\* method and the body the function hands on to from_response
HttpRequest(c, f, url, query, test_name) ==
    CASE f = "post_graphql" ->
             [method |-> "POST", url |-> url, params |-> << >>,
              headers |-> {Header("Content-Type", "application/json")}
                              \cup apply_headers(c, test_name),
              body |-> json_query(query),
              for_curl |-> [method |-> "POST", body |-> json_query(query)]]
      [] f = "post_graphql_batch" ->
             [method |-> "POST", url |-> url, params |-> << >>,
              headers |-> {Header("Content-Type", "application/json")}
                              \cup apply_headers(c, test_name),
              body |-> json_batch(query),
              for_curl |-> [method |-> "POST", body |-> json_batch(query)]]
      [] f = "post_urlencoded" ->
             [method |-> "POST", url |-> url, params |-> << >>,
              headers |-> {Header("Content-Type", "application/x-www-form-urlencoded")}
                              \cup apply_headers(c, test_name),
              body |-> form_query(query),
              for_curl |-> [method |-> "POST", body |-> json_query(query)]]
      [] f = "get_graphql" ->
             [method |-> "GET", url |-> url, params |-> form_query(query),
              headers |-> apply_headers(c, test_name),
              body |-> << >>,
              for_curl |-> [method |-> "GET", body |-> json_query(query)]]

\* GraphQLResponse::from_response
from_response(response_body, url, method, body) ==
    [body |-> response_body, curl_command |-> build_curl(url, method, body)]

ClientAnswers ==
    {Failure, Answer(NotJson), Answer(Obj([data |-> TypenameData]))}

ClientInit ==
    \E f \in ClientCalls : \E a \in ClientAnswers : ProbeState(f, a)

\* the function builds the request and sends it
ClientSend ==
    /\ probe \in ClientCalls
    /\ ppc = "call"
    /\ \E url \in Urls : \E query \in CallQueries : \E test_name \in PassedNames :
           queries' = Append(queries, HttpRequest(client, probe, url, query, test_name))
    /\ ppc' = "wait"
    /\ UNCHANGED <<inferVars, scanVars, client, probe, env, pIdx, found_urls, outcome>>

\* the response arrived: from_response
ClientAnswered ==
    /\ probe \in ClientCalls
    /\ ppc = "wait"
    /\ env.kind = "ok"
    /\ outcome' = Ok(from_response(env.body, queries[1].url, queries[1].for_curl.method,
                                   queries[1].for_curl.body))
    /\ ppc' = "done"
    /\ UNCHANGED <<inferVars, scanVars, client, probe, env, pIdx, found_urls, queries>>

\* send() failed: `.context(..)?`
ClientFailed ==
    /\ probe \in ClientCalls
    /\ ppc = "wait"
    /\ env.kind = "err"
    /\ outcome' = Err
    /\ ppc' = "done"
    /\ UNCHANGED <<inferVars, scanVars, client, probe, env, pIdx, found_urls, queries>>

ClientNext == ClientSend \/ ClientAnswered \/ ClientFailed

SpecClient == ClientInit /\ [][ClientNext]_vars

(***************************************************************************)
(* load_wordlist of discovery/endpoint.rs and of schema/inference.rs, on   *)
(* the characters of the file.                                             *)
(***************************************************************************)
LF == "\n"
CR == "\r"

\* char::is_whitespace, of the characters of the model
WhiteSpace == {" ", CR, LF}

FileChars == {" ", CR, LF, "#", "/", "a"}

\* the contents of a wordlist file
RECURSIVE ContentsOf(_)
ContentsOf(n) ==
    IF n = 0 THEN {<< >>}
    ELSE ContentsOf(n - 1)
             \cup {Append(c, x) : c \in {d \in ContentsOf(n - 1) : Len(d) = n - 1},
                                  x \in FileChars}

\* a line ending of \r\n: the \r is not part of the line
StripCr(line) ==
    IF Len(line) > 0 /\ line[Len(line)] = CR THEN SubSeq(line, 1, Len(line) - 1)
    ELSE line

\* str::lines: split at \n or \r\n; no last line after a final line ending
RECURSIVE SplitLines(_, _)
SplitLines(cs, cur) ==
    IF cs = << >> THEN IF cur = << >> THEN << >> ELSE <<cur>>
    ELSE IF Head(cs) = LF THEN <<StripCr(cur)>> \o SplitLines(Tail(cs), << >>)
    ELSE SplitLines(Tail(cs), Append(cur, Head(cs)))

lines(content) == SplitLines(content, << >>)

RECURSIVE trim_start(_)
trim_start(line) ==
    IF line # << >> /\ Head(line) \in WhiteSpace THEN trim_start(Tail(line)) ELSE line

RECURSIVE trim_end(_)
trim_end(line) ==
    IF line # << >> /\ line[Len(line)] \in WhiteSpace
    THEN trim_end(SubSeq(line, 1, Len(line) - 1))
    ELSE line

\* str::trim
trim(line) == trim_end(trim_start(line))

starts_with(line, c) == Len(line) > 0 /\ line[1] = c

\* the filter of both functions
IsEntry(line) == line # << >> /\ ~starts_with(line, "#")

\* a prefix put on every entry
always_slash(line) == <<"/">> \o line

\* endpoint.rs: the entry, with a / in front if it has none
with_slash(line) == IF starts_with(line, "/") THEN line ELSE <<"/">> \o line

Trimmed(ls) == [i \in 1..Len(ls) |-> trim(ls[i])]

\* discovery::endpoint::load_wordlist, of the content of the file
endpoint_load_wordlist(content) ==
    LET kept == SelectSeq(Trimmed(lines(content)), IsEntry)
    IN  [i \in 1..Len(kept) |-> with_slash(kept[i])]

\* schema::inference::load_wordlist, of the content of the file
inference_load_wordlist(content) == SelectSeq(Trimmed(lines(content)), IsEntry)

\* the file that holds the entries, one on a line
RECURSIVE WriteLines(_)
WriteLines(ls) ==
    IF ls = << >> THEN << >>
    ELSE IF Len(ls) = 1 THEN ls[1]
    ELSE ls[1] \o <<LF>> \o WriteLines(Tail(ls))

Loaders == {"endpoint::load_wordlist", "inference::load_wordlist"}

Load(f, content) ==
    IF f = "endpoint::load_wordlist" THEN endpoint_load_wordlist(content)
    ELSE inference_load_wordlist(content)

\* env is the content of the file, found_urls what the function returned
WordlistInit ==
    /\ probe \in Loaders
    /\ ppc = "call"
    /\ env \in ContentsOf(MaxContent)
    /\ pIdx = 0
    /\ found_urls = << >>
    /\ queries = << >>
    /\ outcome = NoOutcome
    /\ client = HttpClient({}, FALSE)
    /\ ScanIdle
    /\ InferIdle

\* the function reads the file
LoadWordlist ==
    /\ probe \in Loaders
    /\ ppc = "call"
    /\ found_urls' = Load(probe, env)
    /\ ppc' = "loaded"
    /\ UNCHANGED <<inferVars, scanVars, client, probe, env, pIdx, queries, outcome>>

\* the function reads a file that holds what it returned
ReloadWordlist ==
    /\ probe \in Loaders
    /\ ppc = "loaded"
    /\ outcome' = Ok(Load(probe, WriteLines(found_urls)))
    /\ ppc' = "reloaded"
    /\ UNCHANGED <<inferVars, scanVars, client, probe, env, pIdx, found_urls, queries>>

WordlistNext == LoadWordlist \/ ReloadWordlist

SpecWordlist == WordlistInit /\ [][WordlistNext]_vars

(***************************************************************************)
(* Properties of the inferrer.                                             *)
(***************************************************************************)
LoopProbes == {i \in 1..Len(requests) : requests[i].site = "loop"}

\* C1: while one root operation is inferred, the work-queue loop sends the
\* initial probe  <operation> { <name> }  at most once for each name.
C1_EachNameProbedOnce ==
    \A i, j \in LoopProbes :
        (requests[i].op = requests[j].op /\ requests[i].name = requests[j].name)
            => i = j

\* a run that ended, whose wordlist repeats a name the loop probed, against
\* a server that suggested a name again after it was attempted
C1_Witness ==
    /\ pc = "done"
    /\ \E i, j \in 1..Len(wordlist) :
            /\ i # j
            /\ wordlist[i] = wordlist[j]
            /\ \E k \in LoopProbes : requests[k].name = wordlist[i]
    /\ \E k \in LoopProbes :
            \E m \in Range(ErrorMessages(
                    Respond(server, requests[k].op, requests[k].name, FALSE, None))) :
                requests[k].name \in Range(SuggestedWords(m))

InferReturned == pc \in {"returned", "done"}
InferFailed == pc = "failed"

\* C2: inference terminates: every work queue is eventually drained and
\* infer returns (a run that a transport error of probe_field aborts has
\* returned too, with that error).
C2_InferenceTerminates ==
    <>(\/ InferFailed
       \/ (InferReturned /\ Len(words_to_check) = 0 /\ Len(common_args) = 0))

\* infer returned after suggestions extended both kinds of queue: the loop
\* probed a name that is not in the wordlist, and an argument was probed
\* that is not among the built-in ones
C2_Witness ==
    /\ InferReturned
    /\ \E k \in LoopProbes : requests[k].name \notin Range(wordlist)
    /\ \E k \in 1..Len(requests) :
            requests[k].site = "args" /\ requests[k].arg \notin Range(CommonArgs)

\* C3: a transport error of a single request never makes infer fail.
C3_InferNeverFails == ~InferFailed

\* the type names of a list of fields: of the fields and of their arguments
TypeNamesOf(fs) ==
    {fs[i].type_name : i \in 1..Len(fs)}
        \cup UNION {{fs[i].args[j].type_name : j \in 1..Len(fs[i].args)} : i \in 1..Len(fs)}

\* C4: in the schema infer returns, every type name of a field or of an
\* argument is a built-in scalar or a key of the types map.
C4_TypeNamesClosed ==
    InferReturned =>
        \A t \in DOMAIN schema.types :
            \A n \in TypeNamesOf(schema.types[t].fields) \ {None} :
                IsScalarName(n) \/ n \in DOMAIN schema.types

\* Cannot query field "xyz" on type "Query". Did you mean "user", "users"?
C5_Message ==
    <<"Cannot", "query", "field", DQ, "xyz", DQ, "on", "type", DQ, "Query", DQ, ".",
      "Did", "you", "mean", DQ, "user", DQ, ",", DQ, "users", DQ, "?">>

\* C5: seeded with ["xyz"] against a server that answers the probe of xyz
\* with that message, the names attempted for the query operation end up
\* including xyz, user and users.
C5_SuggestionsAllAttempted ==
    (/\ wordlist = <<"xyz">>
     /\ ErrorMessages(Respond(server, "query", "xyz", FALSE, None)) = <<C5_Message>>
     /\ ~errored
     /\ opIdx = 1 /\ pc = "loop" /\ Len(words_to_check) = 0)
        => {"xyz", "user", "users"} \subseteq checked_words

HasField(fs, name, type_name, list) ==
    \E i \in 1..Len(fs) :
        fs[i].name = name /\ fs[i].type_name = type_name /\ fs[i].is_list = list

HasFieldOut(types, name, type) ==
    \E i \in 1..Len(types) : \E j \in 1..Len(types[i].fields) :
        types[i].fields[j].name = name /\ types[i].fields[j].type = type

\* C6: seeded with ["me"] against the server Query.me: User, User.friends:
\* [User], the graph holds me (User, not a list) and friends (User, a list)
\* and the introspection output holds both.
C6_MeAndFriends ==
    (pc = "done" /\ wordlist = <<"me">> /\ server.schema = "me" /\ ~errored)
        => /\ \E t \in DOMAIN schema.types :
                HasField(schema.types[t].fields, "me", "User", FALSE)
           /\ \E t \in DOMAIN schema.types :
                HasField(schema.types[t].fields, "friends", "User", TRUE)
           /\ HasFieldOut(output.types, "me",
                    [kind |-> "OBJECT", name |-> "User", ofKind |-> None, ofName |-> None])
           /\ HasFieldOut(output.types, "friends",
                    [kind |-> "LIST", name |-> None, ofKind |-> "OBJECT", ofName |-> "User"])

\* the types T of the messages  Subselection required for type "T" of field
\* "w"  and  Field "w" of type "T" must have a selection of subfields
SelectionTypes(msgs, w) ==
    {Captures(msgs[i], subselection_regex).caps[1] :
        i \in {k \in 1..Len(msgs) :
                LET m == Captures(msgs[k], subselection_regex)
                IN  m.ok /\ m.caps[2] = w}}
    \cup
    {Captures(msgs[i], must_have_selection_regex).caps[2] :
        i \in {k \in 1..Len(msgs) :
                LET m == Captures(msgs[k], must_have_selection_regex)
                IN  m.ok /\ m.caps[1] = w}}

\* the iteration of the loop that handled the errors of a root response ends
EndsErrorIteration == pc = "scan" /\ pc' = "loop"

NamedInOutput(name) == {i \in 1..Len(output.types) : output.types[i].name = name}

\* C8: the types list to_introspection_format emits holds each of String,
\* Int, Float, Boolean and ID exactly once.
C8_ScalarsOnce ==
    pc = "done" =>
        \A i \in 1..Len(SCALAR_TYPES) :
            Cardinality(NamedInOutput(SCALAR_TYPES[i])) = 1

\* the output of a run in which a "Cannot query field" message named a
\* built-in scalar as the type, and a selection error named ID as the type
\* of the field me
C8_Witness ==
    /\ pc = "done"
    /\ \E k \in LoopProbes :
            \E m \in Range(ErrorMessages(
                    Respond(server, requests[k].op, requests[k].name, FALSE, None))) :
                \E c \in Range(CapturesIter(m, field_error_regex)) : IsScalarName(c[2])
    /\ \E t \in DOMAIN schema.types :
            \E i \in 1..Len(schema.types[t].fields) :
                /\ schema.types[t].fields[i].name = "me"
                /\ schema.types[t].fields[i].type_name = "ID"

\* the bound on the requests of a run is never reached
MaxRequestsSeen == Len(requests) < MaxRequests - 1

(***************************************************************************)
(* Properties of the scan harness.                                         *)
(***************************************************************************)
ResultNames(rs) == {rs[i].name : i \in 1..Len(rs)}

\* C9: a probe whose run a transport error hit has no result in what is
\* output for its target, vulnerable or not, and every other probe that
\* was to run on that target has one.
C9_FaultedProbeAbsent ==
    \A k \in 1..Len(outputs) :
        LET o == outputs[k]
        IN  /\ \A n \in ResultNames(o.results) : <<o.target, n>> \notin faulted
            /\ \A i \in 1..Len(o.tests) :
                    <<o.target, o.tests[i].name>> \notin faulted
                        => o.tests[i].name \in ResultNames(o.results)

\* how often r occurs in rs
Count(rs, r) == Cardinality({i \in 1..Len(rs) : rs[i] = r})

IsPermutation(a, b) ==
    /\ Len(a) = Len(b)
    /\ \A i \in 1..Len(a) : Count(a, a[i]) = Count(b, a[i])

SortedBySeverity(rs) ==
    \A i, j \in 1..Len(rs) :
        i < j => severity_order(rs[i].severity) <= severity_order(rs[j].severity)

\* C10: the result list of every target is sorted HIGH, MEDIUM, LOW, INFO
\* and is a permutation of the results its probes returned; the JSON output
\* is that list, the text output lists its vulnerable results in that order.
C10_SortedPermutation ==
    \A k \in 1..Len(outputs) :
        LET o == outputs[k]
        IN  /\ SortedBySeverity(o.results)
            /\ IsPermutation(o.results, o.returned)
            /\ SortedBySeverity(o.printed)
            /\ (format = "json" => o.printed = o.results)

\* a list was output that the sort had to reorder (a MEDIUM result was
\* returned after a LOW one) and that lacks the result of a probe whose
\* request failed
C10_Witness ==
    \E k \in 1..Len(outputs) :
        LET o == outputs[k]
        IN  /\ o.results # o.returned
            /\ \E i, j \in 1..Len(o.returned) :
                    /\ i < j
                    /\ o.returned[i].severity = "LOW"
                    /\ o.returned[j].severity = "MEDIUM"
            /\ Len(o.results) < Len(o.tests)
(***************************************************************************)
(* Properties of the scan harness: exclusion, order, detection gate.       *)
(***************************************************************************)
\* the probes test.run was called for on target t, in the order of the calls
RunNames(t) ==
    LET on(r) == r.target = t
        rs == SelectSeq(runs, on)
    IN  [i \in 1..Len(rs) |-> rs[i].name]

\* the functions that sent a request to target t
Senders(t) == {wire[i].by : i \in {j \in 1..Len(wire) : wire[j].target = t}}

\* C11: a probe named in --exclude is never run on any target, sends no
\* request and has no result in what is output; a built-in probe that is not
\* excluded is run at most once on a target, and exactly once (sending a
\* request) on every target whose scan was completed.
C11_ExcludedNeverRunOthersOnce ==
    /\ \A i \in 1..Len(runs) : runs[i].name \notin excluded
    /\ \A i \in 1..Len(wire) : wire[i].by \notin excluded
    /\ \A i \in 1..Len(results) : results[i].name \notin excluded
    /\ \A i \in 1..Len(outputs) :
           /\ \A j \in 1..Len(outputs[i].results) :
                  outputs[i].results[j].name \notin excluded
           /\ \A j \in 1..Len(outputs[i].printed) :
                  outputs[i].printed[j].name \notin excluded
           /\ Range(RunNames(outputs[i].target)) = TestNames \ excluded
           /\ (TestNames \ excluded) \subseteq Senders(outputs[i].target)
    /\ \A t \in 1..Len(targets) :
           Len(RunNames(t)) = Cardinality(Range(RunNames(t)))

\* two targets were scanned to the end with three probes excluded
C11_Witness ==
    /\ spc = "done"
    /\ excluded # {}
    /\ Len(outputs) = 2
    /\ Len(runs) = 2 * (Len(all_tests) - Cardinality(excluded))

\* the place of probe n in all_tests
Position(n) == CHOOSE i \in 1..Len(all_tests) : all_tests[i].name = n

\* C12: on one target the probes are run in the order of all_tests, and one
\* after another: a run starts only when every earlier run on the target has
\* returned and no request is outstanding, the outstanding request belongs
\* to the run that started last, and never is more than one request
\* outstanding.
C12_SequentialInOrder ==
    /\ in_flight <= 1
    /\ \A i \in 1..(Len(runs) - 1) :
           \/ runs[i].target < runs[i + 1].target
           \/ /\ runs[i].target = runs[i + 1].target
              /\ Position(runs[i].name) < Position(runs[i + 1].name)
    /\ spc = "tests" =>
           /\ in_flight = 0
           /\ Cardinality({i \in 1..Len(runs) : runs[i].target = tIdx}) = testIdx - 1
    /\ spc \in {"schema_wait", "probe_wait"} =>
           /\ in_flight = 1
           /\ runs[Len(runs)] = [target |-> tIdx, name |-> active_tests[testIdx].name]
           /\ wire[Len(wire)].target = tIdx
           /\ wire[Len(wire)].by = active_tests[testIdx].name
           /\ Cardinality({i \in 1..Len(runs) : runs[i].target = tIdx}) = testIdx

\* the second target's scan is under way, a probe is waiting for its answer
C12_Witness ==
    /\ spc = "probe_wait"
    /\ tIdx = 2
    /\ testIdx > 3
    /\ Len(runs) > Len(all_tests)
    /\ in_flight = 1

\* the runs of the probes on target t
RunsOn(t) == {i \in 1..Len(runs) : runs[i].target = t}

\* what is_graphql_endpoint returned for target t, if it was called
DetectionsOf(t) == {i \in 1..Len(detections) : detections[i].target = t}

\* C13: without --force no probe is run on a target whose detection returned
\* false or failed: the target has no run, no request but the detection
\* query, and no output; and when the scan returns every target was detected
\* once and every target detected as GraphQL was scanned.
C13_UndetectedTargetSkipped ==
    ~force =>
        /\ \A i \in 1..Len(detections) :
               detections[i].detection # "true" =>
                   /\ RunsOn(detections[i].target) = {}
                   /\ \A j \in 1..Len(wire) :
                          wire[j].target = detections[i].target
                              => wire[j].by = "detection"
                   /\ \A j \in 1..Len(outputs) :
                          outputs[j].target # detections[i].target
        /\ \A i \in 1..Len(runs) :
               \E j \in 1..Len(detections) :
                   /\ detections[j].target = runs[i].target
                   /\ detections[j].detection = "true"
        /\ spc = "done" =>
               \A t \in 1..Len(targets) :
                   /\ Cardinality(DetectionsOf(t)) = 1
                   /\ \A j \in DetectionsOf(t) :
                          detections[j].detection = "true" =>
                              \E k \in 1..Len(outputs) : outputs[k].target = t

\* the detection of the first target failed, the second was scanned
C13_Witness ==
    /\ ~force
    /\ spc = "done"
    /\ Len(detections) = 2
    /\ detections[1].detection = "error"
    /\ detections[2].detection = "true"
    /\ RunsOn(1) = {}
    /\ RunsOn(2) # {}
    /\ Len(outputs) = 1

(***************************************************************************)
(* Properties of is_graphql_endpoint and of discover.                      *)
(***************************************************************************)
\* the body is an object whose data is an object whose __typename is one of
\* the four root names, as a string
TypenameIsRoot(body) ==
    /\ body.k = "object"
    /\ "data" \in DOMAIN body.m
    /\ body.m.data.k = "object"
    /\ "__typename" \in DOMAIN body.m.data.m
    /\ body.m.data.m.__typename \in
           {Str(<<"Query">>), Str(<<"QueryRoot">>), Str(<<"query_root">>),
            Str(<<"Root">>)}

\* the body is an object whose errors is an array with an element that has
\* a member locations or a member extensions
ErrorCarriesLocationsOrExtensions(body) ==
    /\ body.k = "object"
    /\ "errors" \in DOMAIN body.m
    /\ body.m.errors.k = "array"
    /\ \E i \in 1..Len(body.m.errors.a) :
           LET e == body.m.errors.a[i]
           IN  e.k = "object" /\ {"locations", "extensions"} \cap DOMAIN e.m # {}

\* C14: is_graphql_endpoint returns Ok(true) exactly when data.__typename of
\* the response is one of Query, QueryRoot, query_root, Root or an element
\* of its errors array has locations or extensions, Ok(false) for every
\* other response, and the error itself when the request failed.
C14_DetectionRule ==
    (probe = "detection" /\ ppc = "done") =>
        IF env.kind = "err"
        THEN outcome = Err
        ELSE outcome = Ok(TypenameIsRoot(env.body)
                          \/ ErrorCarriesLocationsOrExtensions(env.body))

\* detection was true for an answer whose data names no root type and whose
\* second error has extensions
C14_Witness ==
    /\ probe = "detection"
    /\ ppc = "done"
    /\ outcome = Ok(TRUE)
    /\ env.kind = "ok"
    /\ ~TypenameIsRoot(env.body)
    /\ get(env.body, "errors") = Arr(<<PlainError, ExtendedError>>)

\* detection is true for the answer of a candidate
DetectsPositively(c) ==
    /\ c.answer.kind = "ok"
    /\ TypenameIsRoot(c.answer.body) \/ ErrorCarriesLocationsOrExtensions(c.answer.body)

\* the URLs of the candidates of cs that detect positively, in the order of cs
RECURSIVE PositiveUrls(_)
PositiveUrls(cs) ==
    IF Len(cs) = 0 THEN << >>
    ELSE IF DetectsPositively(cs[1])
         THEN <<url_str(cs[1].path)>> \o PositiveUrls(Tail(cs))
         ELSE PositiveUrls(Tail(cs))

\* C15: discover returns the URLs of exactly the candidates whose detection
\* was true, in the order of the path list; it has sent the detection query
\* to every candidate, in that order, also behind a candidate whose request
\* failed.
C15_DiscoveryCollectsPositives ==
    /\ (probe = "discover" /\ ppc = "done") =>
           /\ outcome = Ok(PositiveUrls(env))
           /\ Len(queries) = Len(env)
           /\ \A i \in 1..Len(env) : queries[i].url = url_str(env[i].path)
    /\ probe = "discover" => found_urls = PositiveUrls(SubSeq(env, 1, pIdx))

\* the first candidate failed, the second was negative, the third positive
C15_Witness ==
    /\ probe = "discover"
    /\ ppc = "done"
    /\ Len(env) = 3
    /\ env[1].answer = Failure
    /\ env[2].answer = Answer(NotJson)
    /\ DetectsPositively(env[3])
    /\ outcome = Ok(<<url_str(env[3].path)>>)

(***************************************************************************)
(* Properties of depth_limit and query_complexity.                         *)
(***************************************************************************)
\* the schema the introspection query was answered with, if it was
FetchedSchema ==
    /\ probe \in SchemaTests
    /\ env.introspection.kind = "ok"
    /\ get(env.introspection.body, "data").k = "schema"

TheSchema == get(env.introspection.body, "data").schema

\* the name at the end of a type reference, None if it has none
BaseName(t) ==
    LET named == {i \in 1..Len(t) : t[i].name # None}
    IN  IF named = {} THEN None ELSE t[CHOOSE i \in named : \A j \in named : i <= j].name

\* a LIST wrapper is somewhere in a type reference
ListValued(t) == \E i \in 1..Len(t) : t[i].kind = "LIST"

\* the fields of the type with the name n in schema s
TypeFields(s, n) ==
    LET named == {i \in 1..Len(s.types) : s.types[i].name = n}
    IN  IF n = None \/ named = {} THEN << >>
        ELSE LET t == s.types[CHOOSE i \in named : \A j \in named : i <= j]
             IN  IF t.fields.some THEN t.fields.v ELSE << >>

\* the two-hop recursive paths of s: a field r of the query root type whose
\* base type T has a field g whose base type is T
TwoHopPaths(s) ==
    LET root == TypeFields(s, s.query_type)
        inner(a) == TypeFields(s, BaseName(root[a].field_type))
    IN  UNION {{<<root[a].name, inner(a)[b].name>> :
                    b \in {b \in 1..Len(inner(a)) :
                               /\ BaseName(root[a].field_type) # None
                               /\ BaseName(inner(a)[b].field_type)
                                      = BaseName(root[a].field_type)}} :
               a \in 1..Len(root)}

\* q is query { r { g { g { ... { __typename } ... } } } } with 64 times g
NestsSixtyFour(q, r, g) ==
    /\ Len(q) = 4 + (2 * 64) + 1 + 64 + 2
    /\ q[1] = "query" /\ q[2] = "{" /\ q[3] = r /\ q[4] = "{"
    /\ \A i \in 0..63 : q[5 + (2 * i)] = g /\ q[6 + (2 * i)] = "{"
    /\ q[133] = "__typename"
    /\ \A j \in 134..199 : q[j] = "}"

\* run returned a result that is not vulnerable, with a reproducer string
\* that is no curl command, and has sent the introspection query only
SkippedWithDiagnostic ==
    /\ outcome.kind = "ok"
    /\ outcome.value.vulnerable = FALSE
    /\ Len(outcome.value.curl_command) = 1
    /\ Len(queries) = 1

ErrorsMention(w) ==
    /\ is_some(get(env.payload.body, "errors"))
    /\ Mentions(get(env.payload.body, "errors"), w)

\* C17: when depth_limit has sent its query and got an answer, it reports
\* vulnerable = true unless the errors of the answer mention depth or
\* complexity in any case of the letters; an answer without errors is
\* reported as vulnerable.
C17_DepthVerdict ==
    (probe = "depth_limit" /\ ppc = "done" /\ Len(queries) = 2 /\ env.payload.kind = "ok")
        => outcome = Ok(TestResult(TestNamed("depth_limit"),
                                   ~(ErrorsMention("depth") \/ ErrorsMention("complexity")),
                                   curl_command_of(queries[2].query)))

\* the chains of s, as the places of the root field and of the inner field:
\* a list-valued root field whose base type has a list-valued field whose
\* base type has a field
ListChains(s) ==
    LET root == TypeFields(s, s.query_type)
        inner(a) == TypeFields(s, BaseName(root[a].field_type))
    IN  UNION {{<<a, b>> :
                    b \in {b \in 1..Len(inner(a)) :
                               /\ ListValued(root[a].field_type)
                               /\ ListValued(inner(a)[b].field_type)
                               /\ Len(TypeFields(s, BaseName(inner(a)[b].field_type))) > 0}} :
               a \in 1..Len(root)}

\* the first chain in the order of the fields
FirstChain(s) ==
    CHOOSE c \in ListChains(s) :
        \A d \in ListChains(s) : c[1] < d[1] \/ (c[1] = d[1] /\ c[2] <= d[2])

\* C18: with a fetched schema query_complexity sends a query of three
\* levels exactly when the schema has a chain of a list-valued root field,
\* a list-valued field of its base type and a field of that one's base
\* type: the root field and the inner field of the first chain in field
\* order and the first field below them; without a chain it returns
\* vulnerable = false and sends no query of its own.
C18_ComplexityChain ==
    (probe = "query_complexity" /\ FetchedSchema /\ ppc \in {"payload_wait", "done"}) =>
        IF ListChains(TheSchema) # {}
        THEN LET s == TheSchema
                 root == TypeFields(s, s.query_type)
                 c == FirstChain(s)
                 inner == TypeFields(s, BaseName(root[c[1]].field_type))
                 leaf == TypeFields(s, BaseName(inner[c[2]].field_type))
             IN  /\ Len(queries) = 2
                 /\ queries[2].label = "query_complexity"
                 /\ queries[2].query =
                        <<"query", "{", root[c[1]].name, "{", inner[c[2]].name, "{",
                          leaf[1].name, "}", "}", "}">>
        ELSE ppc = "done" /\ SkippedWithDiagnostic

\* posts, comments, text of the blog schema was sent: the chain behind the
\* list of strings that has nothing below it
C18_Witness ==
    /\ probe = "query_complexity"
    /\ ppc = "done"
    /\ FetchedSchema
    /\ TheSchema = BlogSchema
    /\ Len(queries) = 2
    /\ queries[2].query = <<"query", "{", "posts", "{", "comments", "{", "text",
                            "}", "}", "}">>
    /\ outcome.kind = "ok"

(***************************************************************************)
(* Properties of field_suggestions and trace_mode.                         *)
(***************************************************************************)
\* the places of the errors array whose message contains "did you mean",
\* in any case of the letters
SuggestingPlaces(body) ==
    LET errors == get(body, "errors")
    IN  IF errors.k # "array" THEN {}
        ELSE {i \in 1..Len(errors.a) :
                  /\ get(errors.a[i], "message").k = "string"
                  /\ ContainsDidYouMean(get(errors.a[i], "message").s)}

\* C19: field_suggestions reports vulnerable = true if a message at any
\* place of the errors array of the answer contains "did you mean", in any
\* case of the letters, and vulnerable = false if none does.
C19_AnySuggestingError ==
    (probe = "field_suggestions" /\ ppc = "done" /\ env.kind = "ok")
        => outcome = Ok(TestResult(TestNamed("field_suggestions"),
                                   SuggestingPlaces(env.body) # {},
                                   curl_command_of(SUGGESTIONS_QUERY)))

\* C20: trace_mode reports vulnerable = true whenever the answer to
\* query { __typename } has an extensions member that contains tracing,
\* also when the answer has data and no errors.
C20_TracingInExtensions ==
    (/\ probe = "trace_mode" /\ ppc = "done" /\ env.kind = "ok"
     /\ is_some(get(get(env.body, "extensions"), "tracing")))
        => outcome = Ok(TestResult(TestNamed("trace_mode"), TRUE, curl_command_of(TRACE_QUERY)))

\* the first error message of the answer names none of get, not allowed, only
ErrorMentionsNone(body) ==
    /\ get_first_error_message(body).some
    /\ ~LowerContains(get_first_error_message(body).v, "get")
    /\ ~LowerContainsPair(get_first_error_message(body).v, "not", "allowed")
    /\ ~LowerContains(get_first_error_message(body).v, "only")

\* C21: get_mutation reports vulnerable = true if the answer returns the
\* data of the mutation, or if its error mentions none of "get", "not
\* allowed" and "only" in any case of the letters, whatever else the body of
\* the answer contains.
C21_GetMutationVerdict ==
    (/\ probe = "get_mutation" /\ ppc = "done" /\ env.kind = "ok"
     /\ \/ is_some(get(get(env.body, "data"), "__typename"))
        \/ ErrorMentionsNone(env.body))
        => outcome = Ok(TestResult(TestNamed("get_mutation"), TRUE, curl_of("get_mutation")))

\* data.__schema.types of the answer
TypesOf(body) == get(get(get(body, "data"), "__schema"), "types")

\* C24: circular_introspection reports vulnerable = true exactly when
\* data.__schema.types of the answer is an array of more than 25 elements:
\* 25 elements give false, 26 give true, and an answer without data, without
\* __schema or with types that is no array gives false.
C24_MoreThan25Types ==
    (probe = "circular_introspection" /\ ppc = "done" /\ env.kind = "ok")
        => /\ outcome.kind = "ok"
           /\ outcome.value.vulnerable
                  = (TypesOf(env.body).k = "array" /\ Len(TypesOf(env.body).a) >= 26)
           /\ (TypesOf(env.body).k = "array" /\ Len(TypesOf(env.body).a) = 25)
                  => ~outcome.value.vulnerable
           /\ TypesOf(env.body).k # "array" => ~outcome.value.vulnerable

C24_Witness ==
    /\ probe = "circular_introspection" /\ ppc = "done" /\ env.kind = "ok"
    /\ TypesOf(env.body).k = "array" /\ Len(TypesOf(env.body).a) = 26
    /\ outcome.value.vulnerable

\* C22: when debug mode is on, every request sent while a probe runs, the
\* schema fetch of depth_limit and of query_complexity included, carries the
\* header X-GQLMap-Test with the name of the probe that sent it.
C22_DebugHeaderNamesProbe ==
    (client.debug_mode /\ probe \in SchemaTests)
        => \A i \in 1..Len(queries) :
               {h \in queries[i].headers : h[1] = "X-GQLMap-Test"}
                   = {Header("X-GQLMap-Test", probe)}

\* the argument -H 'Key: value' of a curl command
HeaderArgument(h) == <<"-H", SQ, h[1], ":", h[2], SQ>>

\* the curl command names the method, the URL, every header the caller gave
\* the client, and the body or, for a GET, the query parameter of the request
Mirrors(curl, request, c) ==
    /\ IsInfix(<<"-X", request.method>>, curl)
    /\ IsInfix(<<SQ, request.url, SQ>>, curl)
    /\ \A h \in c.headers : IsInfix(HeaderArgument(h), curl)
    /\ IsInfix(request.body, curl)
    /\ IsInfix(request.params, curl)

\* C23: the curl command of every response envelope mirrors the request
\* that produced it: its method, its URL, every header the caller supplied
\* and its body (for a GET request, the query that was sent).
C23_CurlMirrorsRequest ==
    (probe \in ClientCalls /\ ppc = "done" /\ outcome.kind = "ok")
        => Mirrors(outcome.value.curl_command, queries[1], client)

\* C25: load_wordlist of the discovery (trim every line, drop the blank
\* lines and the lines that start with #, put / before the entries that lack
\* it) and load_wordlist of the inference (trim, drop the blank and the #
\* lines) return the same list when they read their own output.
C25_NormalizationIdempotent ==
    (probe \in Loaders /\ ppc = "reloaded") => outcome = Ok(found_urls)

C25_Witness ==
    /\ probe = "endpoint::load_wordlist" /\ ppc = "reloaded"
    /\ env = <<"#", LF, " ", "a", CR>>
    /\ found_urls = <<<<"/", "a">>>>
    /\ outcome = Ok(found_urls)

\* the messages of the answer to  <op> { <field>(<arg_name>: null) }
ArgProbeMessages == ErrorMessages(Respond(server, Op, word, FALSE, arg_name))

\* a message that reports a value of the wrong type for the argument
IsTypeMismatch(msg) == \E i \in 1..(Len(msg) - 3) :
    SubSeq(msg, i, i + 3) = <<"Expected", "value", "of", "type">>

\* C26: probe_field_args records the argument A only when the answer to
\* <op> { <field>(A: null) } has a type-mismatch error for A; when the server
\* reports A as an unknown argument, A is not recorded, whatever other
\* errors the answer carries.
C26_ArgumentNeedsTypeMismatch ==
    (/\ pc = "arg_loop" /\ arg_name # None
     /\ \E i \in 1..Len(args) : args[i].name = arg_name)
        => /\ \E i \in 1..Len(ArgProbeMessages) : IsTypeMismatch(ArgProbeMessages[i])
           /\ \A i \in 1..Len(ArgProbeMessages) : ~IsUnknownArgument(ArgProbeMessages[i])

\* the answer to  <op> { <word> { __typename } }
TypenameAnswer == Respond(server, Op, word, TRUE, None)

\* the types T of the messages
\* Field "<word>" must not have a selection since type "T" has no subfields
\* of the answer
NoSubfieldsTypes ==
    {Captures(m, must_not_have_selection_regex).caps[2] :
        m \in {n \in Range(ErrorMessages(TypenameAnswer)) :
                  /\ Captures(n, must_not_have_selection_regex).ok
                  /\ Captures(n, must_not_have_selection_regex).caps[1] = word}}

\* C27: probe_field reads the answer to <op> { <name> { __typename } } so:
\* data.<name> an array whose first element has __typename makes the field
\* a list of that type; else data.<name>.__typename makes it an object of
\* that type that is no list; else the error `Field "F" must not have a
\* selection since type "T" has no subfields` for the field makes it a
\* scalar of type T, whether or not the answer has a data member as well.
C27_FieldCharacterization ==
    (pc \in {"arg_loop", "arg_wait"} /\ caller = "field")
        => LET r == TypenameAnswer
               v == r.value
               hasMember == r.hasData /\ ~r.dataNull /\ r.member = word
           IN  IF hasMember /\ v.k = "array" /\ v.ek = "object" /\ v.etn # None
               THEN field.is_list /\ field.type_name = v.etn
               ELSE IF hasMember /\ v.k = "object" /\ v.tn # None
               THEN ~field.is_list /\ field.type_name = v.tn
               ELSE IF NoSubfieldsTypes # {}
               THEN field.type_name \in NoSubfieldsTypes
               ELSE TRUE

\* the work queue without its top
Popped(queue) == SubSeq(queue, 1, Len(queue) - 1)

\* C28: the work queue of probe_root_type is a stack.  A run starts with
\* the wordlist as the queue; the name attempted next is the top of the
\* queue, so the last entry of the wordlist goes first; and the names a
\* response suggests are put on top of the entries that wait, so each of
\* them is attempted before any entry that waited when it was pushed.
C28_LifoQueue ==
    /\ (pc = "loop" => words_to_check = wordlist)
    /\ [][/\ opIdx' # opIdx => (words_to_check' = wordlist /\ checked_words' = {})
          /\ (opIdx' = opIdx /\ checked_words' # checked_words)
                => /\ Len(words_to_check) > 0
                   /\ checked_words'
                          = checked_words \cup {words_to_check[Len(words_to_check)]}
                   /\ words_to_check' = Popped(words_to_check)
          /\ (opIdx' = opIdx /\ Len(words_to_check') < Len(words_to_check))
                => words_to_check' = Popped(words_to_check)
          /\ (opIdx' = opIdx /\ Len(words_to_check') >= Len(words_to_check))
                => /\ SubSeq(words_to_check', 1, Len(words_to_check)) = words_to_check
                   /\ \A i \in (Len(words_to_check) + 1)..Len(words_to_check') :
                          /\ words_to_check'[i] \notin checked_words
                          /\ \E j \in 1..Len(ErrorMessages(response)) :
                                 words_to_check'[i]
                                     \in Range(SuggestedWords(ErrorMessages(response)[j]))
         ]_vars

\* xyz, the last entry, went first, and the name user pushed by its response
\* was attempted while the entry me of the wordlist, which waited below it,
\* still waits
C28_Witness ==
    /\ wordlist = <<"me", "xyz">>
    /\ opIdx = 1 /\ pc = "loop"
    /\ words_to_check = <<"me">>
    /\ {"xyz", "user"} \subseteq checked_words
    /\ "me" \notin checked_words
    /\ \E i \in 1..Len(requests) : requests[i].site = "loop" /\ requests[i].name = "user"

Severities == {"HIGH", "MEDIUM", "LOW", "INFO"}

\* the results of one severity, in the order of the list
OfSeverity(rs, s) ==
    LET is(r) == r.severity = s
    IN  SelectSeq(rs, is)

\* the results follow the order in which all_tests declares their probes
InDeclaredOrder(rs) ==
    \A i \in 1..(Len(rs) - 1) : Position(rs[i].name) < Position(rs[i + 1].name)

\* C29: the sort by severity is stable: the results of one severity stay in
\* the order in which their probes were declared and run, whichever probes
\* were excluded or dropped after a transport error.  (Stated of the list
\* output last: every list is the last one in the state that outputs it.)
C29_StableSort ==
    Len(outputs) > 0
        => \A s \in Severities :
               LET sorted == OfSeverity(outputs[Len(outputs)].results, s)
               IN  /\ sorted = OfSeverity(outputs[Len(outputs)].returned, s)
                   /\ InDeclaredOrder(sorted)

\* a list was output that the sort reordered, with two results of one
\* severity in it, after a probe was excluded and another was dropped
C29_Witness ==
    /\ excluded # {}
    /\ \E k \in 1..Len(outputs) :
           /\ outputs[k].results # outputs[k].returned
           /\ Len(outputs[k].results) < Len(outputs[k].tests)
           /\ \E s \in Severities : Len(OfSeverity(outputs[k].results, s)) >= 2

\* the named type of a reference: the reference, or the ofType of its LIST
NamedRef(ref) ==
    IF ref.kind = "LIST" THEN [kind |-> ref.ofKind, name |-> ref.ofName]
    ELSE [kind |-> ref.kind, name |-> ref.name]

\* C30: in the output of to_introspection_format, the named type of every
\* field of every type has kind SCALAR exactly when its name is one of
\* String, Int, Float, Boolean, ID; a field whose type was never determined
\* is not emitted as an OBJECT named String.
C30_ScalarKindIffScalarName ==
    pc = "done"
        => \A i \in 1..Len(output.types) : \A j \in 1..Len(output.types[i].fields) :
               (NamedRef(output.types[i].fields[j].type).kind = "SCALAR")
                   <=> (NamedRef(output.types[i].fields[j].type).name
                            \in {"String", "Int", "Float", "Boolean", "ID"})

=============================================================================
